---------------------------- MODULE Spec2Model ----------------------------
(***************************************************************************)
(* DynaChem: charged point particles under Coulomb and virtual-spring      *)
(* forces, integrated by Velocity Verlet inside a per-frame chain of       *)
(* systems (src/src/main.rs).                                              *)
(*                                                                         *)
(* Numbers.  The program computes in f64.  The model computes in integers  *)
(* of a fixed model unit: a division is the quotient truncated toward      *)
(* zero (symmetric under negation, as IEEE rounding is) and a square root  *)
(* is the integer square root.  The specification of the force laws draws  *)
(* its spring inputs from lattice points on which every square root and    *)
(* division of spring_force is exact, so there the model computes what     *)
(* real arithmetic computes.  A DVec3 is a tuple <<x, y, z>>.              *)
(***************************************************************************)
EXTENDS Integers, Sequences, FiniteSets, TLC

VARIABLES
    protons,            \* Query<&mut PhysicsProton>: sequence of Proton
    electrons,          \* Query<&mut PhysicsElectron>: sequence of Electron
    proton_transforms,  \* Transform.translation (x, y) of every proton sprite
    electron_transforms,\* Transform.translation (x, y) of every electron sprite
    touch_input,        \* Res<TouchInput>
    mouse_down,         \* ButtonInput<MouseButton>: Left is held at frame start
    pc,                 \* the system of the Update chain that runs next
    substep,            \* physics_step: loop counter of `for _ in 0..substeps`
    particle_ix,        \* physics_step: index of the particle being updated
    phase,              \* physics_step: next statement for that particle
    loop_old_accel,     \* physics_step: `let old_accel` of the particle being updated
    frame,              \* number of completed Update frames
    phase1_done,        \* history: particles whose phase 1 ran in this substep
    phase2_done,        \* history: particles whose phase 2 ran in this substep
    singular_seen,      \* history: a force pass met two coincident particles
    pass_entry,         \* history: the particles as the frame's force pass found them
    step_entry,         \* history: the particles as physics_step last found them
    substeps_done,      \* history: substeps physics_step completed in this frame
    law_pc,             \* force-law harness: "call", "returned" or "off"
    law_call,           \* force-law harness: the function and its arguments
    law_ret             \* force-law harness: what the call returned

vars == <<protons, electrons, proton_transforms, electron_transforms,
          touch_input, mouse_down, pc, substep, particle_ix, phase, loop_old_accel,
          frame, phase1_done, phase2_done, singular_seen,
          pass_entry, step_entry, substeps_done, law_pc, law_call, law_ret>>

driver_vars == <<protons, electrons, proton_transforms, electron_transforms,
                 touch_input, mouse_down, pc, substep, particle_ix, phase,
                 loop_old_accel, frame, phase1_done, phase2_done, singular_seen,
                 pass_entry, step_entry, substeps_done>>

law_vars == <<law_pc, law_call, law_ret>>

----------------------------------------------------------------------------
(* Bounds of the model.                                                    *)

MaxFrames == 2

MaxCharge == 2

MaxDistance == 4

MaxStiffness == 2

MaxDamping == 1

MaxStretch == 8

MaxOps == 3

\* calls of verlet_full_step in a row
MaxSteps == 3

----------------------------------------------------------------------------
(* Physical constants, in model units (src/src/physics/constants.rs).      *)

ELEMENTARY_CHARGE == 1

COULOMB_CONSTANT == 3600

ELECTRON_MASS == 1

PROTON_MASS == 4

----------------------------------------------------------------------------
(* f64 and DVec3 arithmetic.                                               *)

Abs(x) == IF x < 0 THEN -x ELSE x

Sign(x) == IF x < 0 THEN -1 ELSE IF x > 0 THEN 1 ELSE 0

\* a / b on f64, b # 0: the quotient truncated toward zero.
Quot(a, b) == Sign(a) * Sign(b) * (Abs(a) \div Abs(b))

RECURSIVE SqrtSearch(_, _, _)
SqrtSearch(n, lo, hi) ==
    IF lo >= hi THEN lo
    ELSE LET mid == (lo + hi + 1) \div 2
         IN  IF mid * mid <= n THEN SqrtSearch(n, mid, hi)
                               ELSE SqrtSearch(n, lo, mid - 1)

\* f64::sqrt of n >= 0: the integer square root.
Sqrt(n) == SqrtSearch(n, 0, IF n < 46340 THEN n ELSE 46340)

IsSquare(n) == Sqrt(n) * Sqrt(n) = n

VZero == <<0, 0, 0>>

VAdd(a, b) == <<a[1] + b[1], a[2] + b[2], a[3] + b[3]>>

VSub(a, b) == <<a[1] - b[1], a[2] - b[2], a[3] - b[3]>>

VNeg(a) == <<-a[1], -a[2], -a[3]>>

\* DVec3 * f64 and f64 * DVec3
VScale(a, k) == <<a[1] * k, a[2] * k, a[3] * k>>

\* DVec3 / f64
VDiv(a, k) == <<Quot(a[1], k), Quot(a[2], k), Quot(a[3], k)>>

Dot(a, b) == a[1] * b[1] + a[2] * b[2] + a[3] * b[3]

Cross(a, b) == <<a[2] * b[3] - a[3] * b[2],
                 a[3] * b[1] - a[1] * b[3],
                 a[1] * b[2] - a[2] * b[1]>>

\* DVec3::length
Length(a) == Sqrt(Dot(a, a))

\* What a call returns: a value, or the panic that unwinds out of it.
Ok(v) == [panic |-> FALSE, value |-> v]

Panic(msg) == [panic |-> TRUE, message |-> msg]

Singularity == "Cannot calculate Coulomb force at zero distance (singularity)"

----------------------------------------------------------------------------
(* Coulomb force law (src/src/physics/coulomb.rs).                         *)

\* coulomb_force with its assert! taken out: at zero distance the division
\* yields no usable number and a zero vector stands in for it.
coulomb_force_unchecked(q1, q2, r1, r2) ==
    LET displacement == VSub(r1, r2)
        distance     == Length(displacement)
    IN  IF distance = 0 THEN Ok(VZero)
        ELSE LET magnitude == Quot(COULOMB_CONSTANT * q1 * q2, distance * distance)
                 direction_times_magnitude ==
                     VDiv(VScale(displacement, magnitude), distance)
             IN  Ok(direction_times_magnitude)

\* coulomb_force with the charge product taken from the first charge alone.
coulomb_force_own_charge(q1, q2, r1, r2) ==
    LET displacement == VSub(r1, r2)
        distance     == Length(displacement)
    IN  IF ~(distance > 0) THEN Panic(Singularity)
        ELSE LET magnitude == Quot(COULOMB_CONSTANT * q1 * q1, distance * distance)
             IN  Ok(VDiv(VScale(displacement, magnitude), distance))

\* coulomb_force with the displacement taken from particle 1 to particle 2.
coulomb_force_reversed_displacement(q1, q2, r1, r2) ==
    LET displacement == VSub(r2, r1)
        distance     == Length(displacement)
    IN  IF ~(distance > 0) THEN Panic(Singularity)
        ELSE LET magnitude == Quot(COULOMB_CONSTANT * q1 * q2, distance * distance)
             IN  Ok(VDiv(VScale(displacement, magnitude), distance))

\* Force on charge 1 due to charge 2.  `direction * magnitude` with
\* direction = displacement / distance is computed as
\* (displacement * magnitude) / distance, one rounding instead of two.
coulomb_force(q1, q2, r1, r2) ==
    LET displacement == VSub(r1, r2)
        distance     == Length(displacement)
    IN  IF ~(distance > 0) THEN Panic(Singularity)
        ELSE LET magnitude == Quot(COULOMB_CONSTANT * q1 * q2, distance * distance)
                 direction_times_magnitude ==
                     VDiv(VScale(displacement, magnitude), distance)
             IN  Ok(direction_times_magnitude)

\* coulomb_force_magnitude asserting distance >= 0 instead of distance > 0.
coulomb_force_magnitude_weak_assert(q1, q2, distance) ==
    IF distance < 0 THEN Panic(Singularity)
    ELSE IF distance = 0 THEN Ok(0)
    ELSE Ok(Quot(COULOMB_CONSTANT * q1 * q2, distance * distance))

\* coulomb_force_magnitude falling off with the distance, not its square.
coulomb_force_magnitude_inverse_linear(q1, q2, distance) ==
    IF ~(distance > 0) THEN Panic(Singularity)
    ELSE Ok(Quot(COULOMB_CONSTANT * q1 * q2, distance))

coulomb_force_magnitude(q1, q2, distance) ==
    IF ~(distance > 0) THEN Panic(Singularity)
    ELSE Ok(Quot(COULOMB_CONSTANT * q1 * q2, distance * distance))

----------------------------------------------------------------------------
(* Virtual spring (src/src/input/spring.rs).                               *)

\* A SpringConfig value.  The struct has public fields and no constructor
\* that inspects them: every triple of numbers makes a SpringConfig.
SpringConfig(stiffness, damping, max_force) ==
    [stiffness |-> stiffness, damping |-> damping, max_force |-> max_force]

\* total_force.normalize() * max_force, with one rounding
ClampTo(total_force, force_magnitude, max_force) ==
    \* DVec3::normalize of the zero vector divides by zero: every component NaN.
    IF force_magnitude = 0 THEN [nan |-> TRUE]
    ELSE VDiv(VScale(total_force, max_force), force_magnitude)

\* total_force of spring_force, before the clamp
SpringRaw(particle_pos, particle_vel, target_pos, config) ==
    VAdd(VScale(VSub(target_pos, particle_pos), config.stiffness),
         VScale(particle_vel, -config.damping))

\* spring_force without the clamp.
spring_force_unclamped(particle_pos, particle_vel, target_pos, config) ==
    SpringRaw(particle_pos, particle_vel, target_pos, config)

\* spring_force with the damping term added instead of subtracted.
spring_force_damping_sign(particle_pos, particle_vel, target_pos, config) ==
    LET displacement == VSub(target_pos, particle_pos)
        spring_f     == VScale(displacement, config.stiffness)
        damping_f    == VScale(particle_vel, config.damping)
        total_force  == VAdd(spring_f, damping_f)
        force_magnitude == Length(total_force)
    IN  IF force_magnitude > config.max_force
        THEN ClampTo(total_force, force_magnitude, config.max_force)
        ELSE total_force

spring_force(particle_pos, particle_vel, target_pos, config) ==
    LET displacement == VSub(target_pos, particle_pos)
        spring_f     == VScale(displacement, config.stiffness)
        damping_f    == VScale(particle_vel, -config.damping)
        total_force  == VAdd(spring_f, damping_f)
        force_magnitude == Length(total_force)
    IN  IF force_magnitude > config.max_force
        THEN ClampTo(total_force, force_magnitude, config.max_force)
        ELSE total_force

\* `force / max_force < t` on f64, for the threshold t = tenths / 10.  A
\* division by zero gives -inf, +inf or, for 0.0 / 0.0, NaN; of these only
\* -inf is below a threshold.
RatioBelow(force, max_force, tenths) ==
    IF max_force > 0 THEN 10 * force < tenths * max_force
    ELSE IF max_force < 0 THEN 10 * force > tenths * max_force
    ELSE force < 0

\* SpringState::from_stretch with `<=` for `<` at its thresholds.
SpringState_from_stretch_inclusive(stretch, config) ==
    LET force == stretch * config.stiffness
        AtMost(tenths) ==
            IF config.max_force > 0 THEN 10 * force <= tenths * config.max_force
            ELSE IF config.max_force < 0 THEN 10 * force >= tenths * config.max_force
            ELSE force < 0
    IN  IF AtMost(1) THEN "Relaxed"
        ELSE IF AtMost(4) THEN "Light"
        ELSE IF AtMost(7) THEN "Medium"
        ELSE "Heavy"

SpringState_from_stretch(stretch, config) ==
    LET force == stretch * config.stiffness
    IN  IF RatioBelow(force, config.max_force, 1) THEN "Relaxed"
        ELSE IF RatioBelow(force, config.max_force, 4) THEN "Light"
        ELSE IF RatioBelow(force, config.max_force, 7) THEN "Medium"
        ELSE "Heavy"

----------------------------------------------------------------------------
(* Particles (src/src/particles/proton.rs, electron.rs) and the            *)
(* Velocity-Verlet integrator (src/src/physics/simulation.rs).             *)

\* Proton::new / Electron::new
Particle_new(position) ==
    [position |-> position, velocity |-> VZero, force |-> VZero]

\* Proton::with_velocity / Electron::with_velocity
Particle_with_velocity(position, velocity) ==
    [position |-> position, velocity |-> velocity, force |-> VZero]

\* Proton::charge
Proton_charge == ELEMENTARY_CHARGE

\* Electron::charge
Electron_charge == -ELEMENTARY_CHARGE

\* apply_force assigning the force instead of adding it.
apply_force_overwrites(particle, force) ==
    [particle EXCEPT !.force = force]

apply_force(particle, force) ==
    [particle EXCEPT !.force = VAdd(@, force)]

clear_forces(particle) ==
    [particle EXCEPT !.force = VZero]

\* verlet_position_step zeroing the accumulated force once it has read it.
verlet_position_step_clears_force(particle, mass, dt) ==
    LET pos   == particle.position
        vel   == particle.velocity
        force == particle.force
        accel == VDiv(force, mass)
        new_pos == VAdd(VAdd(pos, VScale(vel, dt)),
                        VDiv(VScale(accel, dt * dt), 2))
    IN  [particle |-> [particle EXCEPT !.position = new_pos, !.force = VZero],
         accel |-> accel]

\* Moves the particle; returns it with the acceleration it used.
verlet_position_step(particle, mass, dt) ==
    LET pos   == particle.position
        vel   == particle.velocity
        force == particle.force
        accel == VDiv(force, mass)
        new_pos == VAdd(VAdd(pos, VScale(vel, dt)),
                        VDiv(VScale(accel, dt * dt), 2))
    IN  [particle |-> [particle EXCEPT !.position = new_pos], accel |-> accel]

\* verlet_velocity_step advancing the velocity by the new acceleration alone.
verlet_velocity_step_new_accel_only(particle, mass, old_accel, dt) ==
    LET vel   == particle.velocity
        force == particle.force
        new_accel == VDiv(force, mass)
        new_vel == VAdd(vel, VScale(new_accel, dt))
    IN  [particle EXCEPT !.velocity = new_vel]

verlet_velocity_step(particle, mass, old_accel, dt) ==
    LET vel   == particle.velocity
        force == particle.force
        new_accel == VDiv(force, mass)
        new_vel == VAdd(vel, VDiv(VScale(VAdd(old_accel, new_accel), dt), 2))
    IN  [particle EXCEPT !.velocity = new_vel]

\* force_calc is a function from a position to a force.  The accumulated
\* force is left cleared: new_force is used for new_accel and is not stored.
verlet_full_step(particle, mass, dt, force_calc) ==
    LET step1     == verlet_position_step(particle, mass, dt)
        old_accel == step1.accel
        cleared   == clear_forces(step1.particle)
        new_force == force_calc[cleared.position]
        new_accel == VDiv(new_force, mass)
        vel       == cleared.velocity
        new_vel   == VAdd(vel, VDiv(VScale(VAdd(old_accel, new_accel), dt), 2))
    IN  [cleared EXCEPT !.velocity = new_vel]

----------------------------------------------------------------------------
(* The force laws called on their own: the arguments are drawn in the      *)
(* initial state, one action per function applies it.                      *)

Charges == {q * ELEMENTARY_CHARGE : q \in (-MaxCharge)..MaxCharge}

LawPoints == {<<0, 0, 0>>, <<3, 0, 0>>, <<0, 4, 0>>, <<3, 4, 0>>, <<1, 2, 2>>}

SpringConfigs ==
    {SpringConfig(k, c, m) : k \in 0..MaxStiffness, c \in 0..MaxDamping,
                             m \in {-5, 0, 5, 10, 1000}}

\* Every square root and division spring_force performs on these arguments
\* is exact in integers.
ExactSpring(particle_pos, particle_vel, target_pos, config) ==
    LET raw == SpringRaw(particle_pos, particle_vel, target_pos, config)
        len == Length(raw)
    IN  /\ IsSquare(Dot(raw, raw))
        /\ len > config.max_force /\ len > 0 =>
               \A i \in 1..3 : (Abs(raw[i]) * Abs(config.max_force)) % len = 0

CoulombForceCalls ==
    {[fn |-> "coulomb_force", q1 |-> q1, q2 |-> q2, r1 |-> r1, r2 |-> r2] :
        q1 \in Charges, q2 \in Charges, r1 \in LawPoints, r2 \in LawPoints}

CoulombForceMagnitudeCalls ==
    {[fn |-> "coulomb_force_magnitude", q1 |-> q1, q2 |-> q2, distance |-> d] :
        q1 \in Charges, q2 \in Charges, d \in 0..MaxDistance}

SpringConfigCalls ==
    {[fn |-> "SpringConfig", stiffness |-> c.stiffness, damping |-> c.damping,
      max_force |-> c.max_force] : c \in SpringConfigs}

SpringForceCalls ==
    {c \in [fn : {"spring_force"},
            particle_pos : {<<0, 0, 0>>, <<3, 0, 0>>, <<5, 3, 2>>},
            particle_vel : {<<0, 0, 0>>, <<3, 0, 0>>, <<0, -4, 0>>, <<-3, -4, 0>>},
            target_pos : {<<0, 0, 0>>, <<3, 0, 0>>, <<3, 4, 0>>, <<6, 5, 4>>,
                          <<5, 3, 2>>},
            config : SpringConfigs] :
        ExactSpring(c.particle_pos, c.particle_vel, c.target_pos, c.config)}

VerletForces == {<<0, 0, 0>>, <<8, 0, 0>>, <<4, -4, 0>>, <<-8, 16, 24>>}

\* Every division of the two Verlet phases on these arguments is exact in
\* integers: force / mass, 0.5 * accel * dt * dt and
\* 0.5 * (old_accel + new_accel) * dt.
ExactVerlet(c) ==
    \A i \in 1..3 :
        /\ c.force[i] % c.mass = 0
        /\ c.new_force[i] % c.mass = 0
        /\ (Quot(c.force[i], c.mass) * c.dt * c.dt) % 2 = 0
        /\ ((Quot(c.force[i], c.mass) + Quot(c.new_force[i], c.mass)) * c.dt) % 2 = 0

\* One two-phase step as the tests of simulation.rs drive it: a particle
\* with a force, verlet_position_step, the caller's new force,
\* verlet_velocity_step.
VerletStepCalls ==
    {c \in [fn : {"verlet_step"}, mass : {ELECTRON_MASS, PROTON_MASS},
            position : {<<0, 0, 0>>, <<5, -3, 2>>},
            velocity : {<<0, 0, 0>>, <<1, 0, 0>>, <<-2, 3, 1>>}, force : VerletForces,
            new_force : VerletForces, dt : {1, 2}] : ExactVerlet(c)}

FromStretchCalls ==
    [fn : {"from_stretch"}, stretch : 0..MaxStretch, config : SpringConfigs]

NoCall == [fn |-> "none"]

NoRet == [panic |-> FALSE, value |-> "none"]

DriverOff ==
    /\ protons = <<>>
    /\ electrons = <<>>
    /\ proton_transforms = <<>>
    /\ electron_transforms = <<>>
    /\ touch_input = [active |-> FALSE, position |-> VZero, selected_entity |-> [some |-> FALSE]]
    /\ mouse_down = FALSE
    /\ pc = "off"
    /\ substep = 0
    /\ particle_ix = 0
    /\ phase = "none"
    /\ loop_old_accel = VZero
    /\ frame = 0
    /\ phase1_done = {}
    /\ phase2_done = {}
    /\ singular_seen = FALSE
    /\ pass_entry = [protons |-> <<>>, electrons |-> <<>>]
    /\ step_entry = [protons |-> <<>>, electrons |-> <<>>]
    /\ substeps_done = 0

LawInit ==
    /\ DriverOff
    /\ law_pc = "call"
    /\ law_call \in CoulombForceCalls \cup CoulombForceMagnitudeCalls
                    \cup SpringConfigCalls \cup SpringForceCalls
                    \cup VerletStepCalls \cup FromStretchCalls
    /\ law_ret = NoRet

CallCoulombForce ==
    /\ law_pc = "call"
    /\ law_call.fn = "coulomb_force"
    /\ law_ret' = coulomb_force(law_call.q1, law_call.q2, law_call.r1, law_call.r2)
    /\ law_pc' = "returned"
    /\ UNCHANGED <<law_call, driver_vars>>

CallCoulombForceMagnitude ==
    /\ law_pc = "call"
    /\ law_call.fn = "coulomb_force_magnitude"
    /\ law_ret' = coulomb_force_magnitude(law_call.q1, law_call.q2, law_call.distance)
    /\ law_pc' = "returned"
    /\ UNCHANGED <<law_call, driver_vars>>

ConstructSpringConfig ==
    /\ law_pc = "call"
    /\ law_call.fn = "SpringConfig"
    /\ law_ret' = Ok(SpringConfig(law_call.stiffness, law_call.damping,
                                  law_call.max_force))
    /\ law_pc' = "returned"
    /\ UNCHANGED <<law_call, driver_vars>>

CallSpringForce ==
    /\ law_pc = "call"
    /\ law_call.fn = "spring_force"
    /\ law_ret' = Ok(spring_force(law_call.particle_pos, law_call.particle_vel,
                                  law_call.target_pos, law_call.config))
    /\ law_pc' = "returned"
    /\ UNCHANGED <<law_call, driver_vars>>

\* `let old_accel = verlet_position_step(&mut particle, dt);`
CallVerletPositionStep ==
    /\ law_pc = "call"
    /\ law_call.fn = "verlet_step"
    /\ law_ret' = Ok(verlet_position_step(
                        [position |-> law_call.position, velocity |-> law_call.velocity,
                         force |-> law_call.force],
                        law_call.mass, law_call.dt))
    /\ law_pc' = "phase1"
    /\ UNCHANGED <<law_call, driver_vars>>

\* `particle.force = force; verlet_velocity_step(&mut particle, old_accel, dt);`
CallVerletVelocityStep ==
    /\ law_pc = "phase1"
    /\ law_call.fn = "verlet_step"
    /\ law_ret' = Ok([particle |->
                          verlet_velocity_step(
                              [law_ret.value.particle EXCEPT !.force = law_call.new_force],
                              law_call.mass, law_ret.value.accel, law_call.dt),
                      accel |-> law_ret.value.accel])
    /\ law_pc' = "returned"
    /\ UNCHANGED <<law_call, driver_vars>>

CallFromStretch ==
    /\ law_pc = "call"
    /\ law_call.fn = "from_stretch"
    /\ law_ret' = Ok(SpringState_from_stretch(law_call.stretch, law_call.config))
    /\ law_pc' = "returned"
    /\ UNCHANGED <<law_call, driver_vars>>

LawNext ==
    \/ CallCoulombForce
    \/ CallCoulombForceMagnitude
    \/ ConstructSpringConfig
    \/ CallSpringForce
    \/ CallVerletPositionStep
    \/ CallVerletVelocityStep
    \/ CallFromStretch

SpecLaws == LawInit /\ [][LawNext]_vars

----------------------------------------------------------------------------
(* The application (src/src/main.rs): resources, setup and the chained     *)
(* Update systems.                                                         *)

\* SimulationTime { dt }
SimDt == 10

\* `let substeps = 10` of physics_step
Substeps == 10

BOHR_RADIUS == 3

\* ProtonRenderConfig::default().scale, pixels per model length unit
RenderScale == 10

\* `cursor_pos.distance(proton_screen) < 30.0`
HitRadius == 30

\* insert_resource(SpringConfig { .. })
MainSpringConfig == SpringConfig(2, 1, 12)

None == [some |-> FALSE]

Some(x) == [some |-> TRUE, value |-> x]

TouchInput_default ==
    [active |-> FALSE, position |-> VZero, selected_entity |-> None]

\* TouchInput::begin setting the position and the selection and leaving the
\* flag as it is.
TouchInput_begin_keeps_flag(self, position, entity) ==
    [self EXCEPT !.position = position, !.selected_entity = Some(entity)]

TouchInput_begin(self, position, entity) ==
    [self EXCEPT !.active = TRUE, !.position = position,
                 !.selected_entity = Some(entity)]

TouchInput_update_position(self, position) ==
    [self EXCEPT !.position = position]

\* TouchInput::end clearing the flag and keeping the selection.
TouchInput_end_keeps_selection(self) ==
    [self EXCEPT !.active = FALSE]

TouchInput_end(self) ==
    [self EXCEPT !.active = FALSE, !.selected_entity = None]

physics_to_screen(pos) == <<pos[1] * RenderScale, pos[2] * RenderScale>>

screen_to_physics(pos) ==
    <<Quot(pos[1], RenderScale), Quot(pos[2], RenderScale), 0>>

\* Vec2::distance
Distance2(a, b) ==
    Sqrt((a[1] - b[1]) * (a[1] - b[1]) + (a[2] - b[2]) * (a[2] - b[2]))

\* setup: one proton at two Bohr radii, one electron at the origin with half
\* the orbital speed.
SetupScene ==
    LET r == BOHR_RADIUS * 2
        orbital_v == Sqrt(Quot(COULOMB_CONSTANT * ELEMENTARY_CHARGE * ELEMENTARY_CHARGE,
                               ELECTRON_MASS * r))
    IN  [protons   |-> <<Particle_new(<<r, 0, 0>>)>>,
         electrons |-> <<Particle_with_velocity(VZero, <<0, Quot(orbital_v, 2), 0>>)>>]

\* Worlds a host can spawn with the constructors of Proton and Electron:
\* the application's own, and others with more particles of a species.
Scenes ==
    { SetupScene,
      [protons   |-> <<Particle_new(<<6, 0, 0>>), Particle_new(<<0, 8, 0>>)>>,
       electrons |-> <<Particle_new(VZero)>>],
      [protons   |-> <<Particle_new(<<6, 0, 0>>)>>,
       electrons |-> <<Particle_new(VZero),
                       Particle_with_velocity(<<6, 8, 0>>, <<0, -3, 0>>)>>],
      [protons   |-> <<Particle_new(<<-4, 0, 0>>), Particle_new(<<4, 3, 0>>)>>,
       electrons |-> <<>>],
      [protons   |-> <<Particle_new(<<70, 0, 0>>)>>,
       electrons |-> <<Particle_with_velocity(VZero, <<7, 0, 0>>)>>],
      [protons   |-> <<Particle_new(<<6, 0, 0>>),
                       Particle_with_velocity(<<0, -5, 0>>, <<1, 2, 0>>)>>,
       electrons |-> <<>>],
      [protons   |-> <<Particle_new(<<8, 2, 0>>)>>,
       electrons |-> <<Particle_new(VZero), Particle_new(<<8, 10, 0>>)>>],
      [protons   |-> <<Particle_new(<<8, 2, 0>>)>>,
       electrons |-> <<Particle_new(VZero), Particle_new(<<8, 2, 0>>)>>] }

\* Window::cursor_position mapped to world coordinates: None when the
\* cursor is outside the window.
CursorStates == {None, Some(<<60, 0>>), Some(<<100, 40>>)}

\* ButtonInput<MouseButton> for Left in one frame, given whether the button
\* was held when the previous frame ended.
MouseStates(held) ==
    IF held
    THEN { [just_pressed |-> FALSE, pressed |-> TRUE,  just_released |-> FALSE],
           [just_pressed |-> FALSE, pressed |-> FALSE, just_released |-> TRUE],
           [just_pressed |-> TRUE,  pressed |-> TRUE,  just_released |-> TRUE] }
    ELSE { [just_pressed |-> FALSE, pressed |-> FALSE, just_released |-> FALSE],
           [just_pressed |-> TRUE,  pressed |-> TRUE,  just_released |-> FALSE],
           [just_pressed |-> TRUE,  pressed |-> FALSE, just_released |-> TRUE] }

\* The protons the `for` loop of handle_mouse_input finds under the cursor.
ProtonsUnder(transforms, cursor_pos) ==
    {i \in 1..Len(transforms) : Distance2(cursor_pos, transforms[i]) < HitRadius}

handle_mouse_input(touch, transforms, mouse_button, cursor) ==
    IF ~cursor.some THEN touch
    ELSE LET cursor_pos  == cursor.value
             physics_pos == screen_to_physics(cursor_pos)
             hit         == ProtonsUnder(transforms, cursor_pos)
         IN  IF mouse_button.just_pressed
             THEN IF hit # {}
                  THEN TouchInput_begin(touch, physics_pos,
                                        CHOOSE i \in hit : \A j \in hit : i <= j)
                  ELSE touch
             ELSE IF mouse_button.pressed /\ touch.active
             THEN TouchInput_update_position(touch, physics_pos)
             ELSE IF mouse_button.just_released
             THEN TouchInput_end(touch)
             ELSE touch

\* apply_spring_force without its early return on an inactive anchor.
apply_spring_force_ignores_active(touch, spring_config, ps) ==
    IF ~touch.selected_entity.some THEN ps
    ELSE [i \in 1..Len(ps) |->
             IF i = touch.selected_entity.value
             THEN apply_force(ps[i], spring_force(ps[i].position, ps[i].velocity,
                                                  touch.position, spring_config))
             ELSE ps[i]]

\* apply_spring_force without the comparison `entity == selected`.
apply_spring_force_every_proton(touch, spring_config, ps) ==
    IF ~touch.active THEN ps
    ELSE IF ~touch.selected_entity.some THEN ps
    ELSE [i \in 1..Len(ps) |->
             apply_force(ps[i], spring_force(ps[i].position, ps[i].velocity,
                                             touch.position, spring_config))]

\* The protons after apply_spring_force.
apply_spring_force(touch, spring_config, ps) ==
    IF ~touch.active THEN ps
    ELSE IF ~touch.selected_entity.some THEN ps
    ELSE [i \in 1..Len(ps) |->
             IF i = touch.selected_entity.value
             THEN apply_force(ps[i], spring_force(ps[i].position, ps[i].velocity,
                                                  touch.position, spring_config))
             ELSE ps[i]]

\* One `for` nest of apply_coulomb_forces: every particle of `targets`, in
\* order, receives the force of every entry of `sources`, in order; a panic
\* of coulomb_force leaves what was applied before it.
RECURSIVE CoulombLoop(_, _, _, _, _)
CoulombLoop(targets, charge, sources, i, j) ==
    IF i > Len(targets) THEN [panic |-> FALSE, particles |-> targets]
    ELSE IF j > Len(sources) THEN CoulombLoop(targets, charge, sources, i + 1, 1)
    ELSE LET force == coulomb_force(charge, sources[j].charge,
                                    targets[i].position, sources[j].position)
         IN  IF force.panic THEN [panic |-> TRUE, particles |-> targets]
             ELSE CoulombLoop([targets EXCEPT ![i] = apply_force(@, force.value)],
                              charge, sources, i, j + 1)

\* apply_coulomb_forces without its second loop nest: the electrons receive
\* nothing.
apply_coulomb_forces_skips_electrons(ps, es) ==
    LET electron_data ==
            [j \in 1..Len(es) |-> [position |-> es[j].position, charge |-> Electron_charge]]
        on_protons == CoulombLoop(ps, Proton_charge, electron_data, 1, 1)
    IN  [panic |-> on_protons.panic, protons |-> on_protons.particles, electrons |-> es]

\* apply_coulomb_forces whose second loop nest passes Proton::charge() for
\* the electron, as the first nest does for the proton.
apply_coulomb_forces_same_charge(ps, es) ==
    LET proton_data ==
            [i \in 1..Len(ps) |-> [position |-> ps[i].position, charge |-> Proton_charge]]
        electron_data ==
            [j \in 1..Len(es) |-> [position |-> es[j].position, charge |-> Electron_charge]]
        on_protons == CoulombLoop(ps, Proton_charge, electron_data, 1, 1)
        on_electrons == CoulombLoop(es, Proton_charge, proton_data, 1, 1)
    IN  IF on_protons.panic
        THEN [panic |-> TRUE, protons |-> on_protons.particles, electrons |-> es]
        ELSE [panic |-> on_electrons.panic, protons |-> on_protons.particles,
              electrons |-> on_electrons.particles]

apply_coulomb_forces(ps, es) ==
    LET proton_data ==
            [i \in 1..Len(ps) |-> [position |-> ps[i].position, charge |-> Proton_charge]]
        electron_data ==
            [j \in 1..Len(es) |-> [position |-> es[j].position, charge |-> Electron_charge]]
        on_protons == CoulombLoop(ps, Proton_charge, electron_data, 1, 1)
        on_electrons == CoulombLoop(es, Electron_charge, proton_data, 1, 1)
    IN  IF on_protons.panic
        THEN [panic |-> TRUE, protons |-> on_protons.particles, electrons |-> es]
        ELSE [panic |-> on_electrons.panic, protons |-> on_protons.particles,
              electrons |-> on_electrons.particles]

\* physics_step iterates the protons, then the electrons.
ParticleCount == Len(protons) + Len(electrons)

IsProton(k) == k <= Len(protons)

ParticleAt(k) == IF IsProton(k) THEN protons[k] ELSE electrons[k - Len(protons)]

MassOf(k) == IF IsProton(k) THEN PROTON_MASS ELSE ELECTRON_MASS

ChargeOf(k) == IF IsProton(k) THEN Proton_charge ELSE Electron_charge

\* sub_dt without the division: every substep advances a whole frame step.
SubDt_whole_frame == SimDt

\* `let sub_dt = dt / substeps as f64`
SubDt == Quot(SimDt, Substeps)

Coincident ==
    \E i \in 1..Len(protons), j \in 1..Len(electrons) :
        protons[i].position = electrons[j].position

LawsOff ==
    /\ law_pc = "off"
    /\ law_call = NoCall
    /\ law_ret = NoRet

\* The world after the Startup system `setup`, before the first Update.
Init ==
    /\ \E scene \in Scenes :
          /\ protons = scene.protons
          /\ electrons = scene.electrons
          /\ proton_transforms =
                 [i \in 1..Len(scene.protons) |->
                     physics_to_screen(scene.protons[i].position)]
          /\ electron_transforms =
                 [j \in 1..Len(scene.electrons) |->
                     physics_to_screen(scene.electrons[j].position)]
    /\ touch_input = TouchInput_default
    /\ mouse_down = FALSE
    /\ pc = "handle_mouse_input"
    /\ substep = 0
    /\ particle_ix = 0
    /\ phase = "none"
    /\ loop_old_accel = VZero
    /\ frame = 0
    /\ phase1_done = {}
    /\ phase2_done = {}
    /\ singular_seen = FALSE
    /\ pass_entry = [protons |-> protons, electrons |-> electrons]
    /\ step_entry = [protons |-> protons, electrons |-> electrons]
    /\ substeps_done = 0
    /\ LawsOff

HandleMouseInput ==
    /\ pc = "handle_mouse_input"
    /\ frame < MaxFrames
    /\ \E mouse_button \in MouseStates(mouse_down), cursor \in CursorStates :
          /\ touch_input' = handle_mouse_input(touch_input, proton_transforms,
                                               mouse_button, cursor)
          /\ mouse_down' = mouse_button.pressed
    /\ pc' = "apply_spring_force"
    /\ UNCHANGED <<protons, electrons, proton_transforms, electron_transforms,
                   substep, particle_ix, phase, loop_old_accel, frame,
                   phase1_done, phase2_done, singular_seen, pass_entry, step_entry, substeps_done,
                   law_vars>>

\* apply_spring_force taking the anchor mutably and ending the drag once the
\* force is applied.
ApplySpringForce_ends_drag ==
    /\ pc = "apply_spring_force"
    /\ protons' = apply_spring_force(touch_input, MainSpringConfig, protons)
    /\ pass_entry' = [protons |-> protons, electrons |-> electrons]
    /\ touch_input' = TouchInput_end(touch_input)
    /\ pc' = "apply_coulomb_forces"
    /\ UNCHANGED <<electrons, proton_transforms, electron_transforms,
                   mouse_down, substep, particle_ix, phase,
                   loop_old_accel, frame, phase1_done, phase2_done,
                   singular_seen, step_entry, substeps_done,
                   law_vars>>

ApplySpringForce ==
    /\ pc = "apply_spring_force"
    /\ protons' = apply_spring_force(touch_input, MainSpringConfig, protons)
    /\ pass_entry' = [protons |-> protons, electrons |-> electrons]
    /\ pc' = "apply_coulomb_forces"
    /\ UNCHANGED <<electrons, proton_transforms, electron_transforms,
                   touch_input, mouse_down, substep, particle_ix, phase,
                   loop_old_accel, frame, phase1_done, phase2_done,
                   singular_seen, step_entry, substeps_done,
                   law_vars>>

\* A panic of coulomb_force unwinds out of the system and ends the run;
\* otherwise physics_step follows and enters its first substep.
ApplyCoulombForces ==
    /\ pc = "apply_coulomb_forces"
    /\ LET pass == apply_coulomb_forces(protons, electrons)
       IN  /\ protons' = pass.protons
           /\ electrons' = pass.electrons
           /\ IF pass.panic
              THEN /\ pc' = "panicked"
                   /\ UNCHANGED <<substep, particle_ix, phase, step_entry,
                                  substeps_done>>
              ELSE /\ step_entry' = [protons |-> pass.protons,
                                     electrons |-> pass.electrons]
                   /\ IF ParticleCount = 0
                      THEN /\ pc' = "sync_visuals"
                           /\ substeps_done' = Substeps
                           /\ UNCHANGED <<substep, particle_ix, phase>>
                      ELSE /\ pc' = "physics_step"
                           /\ substep' = 1
                           /\ particle_ix' = 1
                           /\ phase' = "position"
                           /\ substeps_done' = 0
    /\ singular_seen' = (singular_seen \/ Coincident)
    /\ UNCHANGED <<proton_transforms, electron_transforms, touch_input,
                   mouse_down, loop_old_accel, frame, phase1_done,
                   phase2_done, pass_entry, law_vars>>

\* physics_step writes the particle at place k of its iteration.
WithParticle(k, particle) ==
    IF IsProton(k)
    THEN /\ protons' = [protons EXCEPT ![k] = particle]
         /\ UNCHANGED electrons
    ELSE /\ electrons' = [electrons EXCEPT ![k - Len(protons)] = particle]
         /\ UNCHANGED protons

\* `let old_accel = verlet_position_step(&mut p.0, sub_dt);`
PhysicsPositionStep ==
    /\ pc = "physics_step"
    /\ phase = "position"
    /\ LET r == verlet_position_step(ParticleAt(particle_ix), MassOf(particle_ix), SubDt)
       IN  /\ WithParticle(particle_ix, r.particle)
           /\ loop_old_accel' = r.accel
    /\ phase' = "velocity"
    /\ phase1_done' = phase1_done \cup {particle_ix}
    /\ UNCHANGED <<proton_transforms, electron_transforms, touch_input,
                   mouse_down, pc, substep, particle_ix, frame, phase2_done,
                   singular_seen, pass_entry, step_entry, substeps_done,
                   law_vars>>

\* `verlet_velocity_step(&mut p.0, old_accel, sub_dt);`
PhysicsVelocityStep ==
    /\ pc = "physics_step"
    /\ phase = "velocity"
    /\ WithParticle(particle_ix,
                    verlet_velocity_step(ParticleAt(particle_ix), MassOf(particle_ix),
                                         loop_old_accel, SubDt))
    /\ phase' = "clear"
    /\ phase2_done' = phase2_done \cup {particle_ix}
    /\ UNCHANGED <<proton_transforms, electron_transforms, touch_input,
                   mouse_down, pc, substep, particle_ix, loop_old_accel, frame,
                   phase1_done, singular_seen, pass_entry, step_entry, substeps_done,
                   law_vars>>

\* `p.0.clear_forces();`, then on to the next particle, the next substep or
\* out of physics_step.
PhysicsClearForces ==
    /\ pc = "physics_step"
    /\ phase = "clear"
    /\ WithParticle(particle_ix, clear_forces(ParticleAt(particle_ix)))
    /\ IF particle_ix < ParticleCount
       THEN /\ particle_ix' = particle_ix + 1
            /\ phase' = "position"
            /\ UNCHANGED <<pc, substep, phase1_done, phase2_done, substeps_done>>
       ELSE IF substep < Substeps
       THEN /\ substep' = substep + 1
            /\ particle_ix' = 1
            /\ phase' = "position"
            /\ phase1_done' = {}
            /\ phase2_done' = {}
            /\ substeps_done' = substeps_done + 1
            /\ UNCHANGED pc
       ELSE /\ pc' = "sync_visuals"
            /\ substep' = 0
            /\ particle_ix' = 0
            /\ phase' = "none"
            /\ phase1_done' = {}
            /\ phase2_done' = {}
            /\ substeps_done' = substeps_done + 1
    /\ UNCHANGED <<proton_transforms, electron_transforms, touch_input,
                   mouse_down, loop_old_accel, frame, singular_seen, pass_entry, step_entry,
                   law_vars>>

\* sync_visuals ends the modelled part of the frame.
SyncVisuals ==
    /\ pc = "sync_visuals"
    /\ proton_transforms' =
           [i \in 1..Len(protons) |-> physics_to_screen(protons[i].position)]
    /\ electron_transforms' =
           [j \in 1..Len(electrons) |-> physics_to_screen(electrons[j].position)]
    /\ frame' = frame + 1
    /\ pc' = "handle_mouse_input"
    /\ UNCHANGED <<protons, electrons, touch_input, mouse_down, substep,
                   particle_ix, phase, loop_old_accel, phase1_done,
                   phase2_done, singular_seen, pass_entry, step_entry, substeps_done,
                   law_vars>>

Next ==
    \/ HandleMouseInput
    \/ ApplySpringForce
    \/ ApplyCoulombForces
    \/ PhysicsPositionStep
    \/ PhysicsVelocityStep
    \/ PhysicsClearForces
    \/ SyncVisuals

Spec == Init /\ [][Next]_vars

\* The statements of physics_step run one after the other: inside the
\* substep loop the statement that is next is executed.
SpecLive ==
    /\ Init
    /\ [][Next]_vars
    /\ WF_vars(PhysicsPositionStep \/ PhysicsVelocityStep \/ PhysicsClearForces)

----------------------------------------------------------------------------
(* The anchor on its own: a TouchInput::default() driven by any sequence   *)
(* of begin, update_position and end.  law_call holds the last event and   *)
(* law_ret the anchor as it was before that event.                         *)

AnchorPositions == {<<0, 0, 0>>, <<1, 2, 3>>, <<4, 5, 6>>, <<-7, 0, 2>>}

world_vars == <<protons, electrons, proton_transforms, electron_transforms,
                mouse_down, pc, substep, particle_ix, phase, loop_old_accel,
                frame, phase1_done, phase2_done, singular_seen,
                pass_entry, step_entry, substeps_done>>

TouchInit ==
    /\ DriverOff
    /\ touch_input = TouchInput_default
    /\ law_pc = "anchor"
    /\ law_call = NoCall
    /\ law_ret = NoRet

TouchBegin ==
    /\ law_pc = "anchor"
    /\ \E position \in AnchorPositions, entity \in {1, 2} :
          /\ touch_input' = TouchInput_begin(touch_input, position, entity)
          /\ law_call' = [fn |-> "begin", position |-> position, entity |-> entity]
    /\ law_ret' = Ok(touch_input)
    /\ UNCHANGED <<law_pc, world_vars>>

TouchUpdatePosition ==
    /\ law_pc = "anchor"
    /\ \E position \in AnchorPositions :
          /\ touch_input' = TouchInput_update_position(touch_input, position)
          /\ law_call' = [fn |-> "update_position", position |-> position]
    /\ law_ret' = Ok(touch_input)
    /\ UNCHANGED <<law_pc, world_vars>>

TouchEnd ==
    /\ law_pc = "anchor"
    /\ touch_input' = TouchInput_end(touch_input)
    /\ law_call' = [fn |-> "end"]
    /\ law_ret' = Ok(touch_input)
    /\ UNCHANGED <<law_pc, world_vars>>

TouchNext ==
    \/ TouchBegin
    \/ TouchUpdatePosition
    \/ TouchEnd

SpecTouch == TouchInit /\ [][TouchNext]_vars

\* C12: the anchor is always Idle (inactive, no selection) or Dragging
\* (active, a selection).  It starts Idle; begin(pos, id) yields Dragging
\* with position pos and selection id; update_position(p) sets the position
\* to p and keeps the flag and the selection; end() yields Idle.
C12_AnchorStateMachine ==
    law_pc = "anchor" =>
        /\ touch_input.active <=> touch_input.selected_entity.some
        /\ law_call.fn = "none" =>
               /\ ~touch_input.active
               /\ touch_input.selected_entity = None
        /\ law_call.fn = "begin" =>
               /\ touch_input.active
               /\ touch_input.selected_entity = Some(law_call.entity)
               /\ touch_input.position = law_call.position
        /\ law_call.fn = "update_position" =>
               /\ touch_input.position = law_call.position
               /\ touch_input.active = law_ret.value.active
               /\ touch_input.selected_entity = law_ret.value.selected_entity
        /\ law_call.fn = "end" =>
               /\ ~touch_input.active
               /\ touch_input.selected_entity = None

\* end() on a drag whose anchor had been moved.
C12_Witness ==
    /\ law_pc = "anchor"
    /\ law_call.fn = "end"
    /\ law_ret.value.active
    /\ law_ret.value.selected_entity = Some(2)
    /\ law_ret.value.position = <<4, 5, 6>>
    /\ ~touch_input.active

\* C26: from TouchInput::default(), after any sequence of begin,
\* update_position and end, active is true exactly when selected_entity is
\* Some.  No selection survives an end(), update_position or end() on an
\* idle anchor leave it idle, and begin on a dragging anchor leaves it
\* dragging the new entity.
C26_ActiveIffSelected ==
    law_pc = "anchor" =>
        /\ touch_input.active = touch_input.selected_entity.some
        /\ ~touch_input.active => touch_input.selected_entity = None
        /\ law_call.fn = "end" => touch_input.selected_entity = None
        /\ (law_call.fn \in {"update_position", "end"} /\ ~law_ret.value.active) =>
               ~touch_input.active
        /\ (law_call.fn = "begin" /\ law_ret.value.active) =>
               touch_input.selected_entity = Some(law_call.entity)

\* begin on an anchor that was dragging another entity.
C26_Witness ==
    /\ law_pc = "anchor"
    /\ law_call.fn = "begin"
    /\ law_call.entity = 2
    /\ law_ret.value.active
    /\ law_ret.value.selected_entity = Some(1)
    /\ touch_input.active
    /\ touch_input.selected_entity = Some(2)

----------------------------------------------------------------------------
(* One particle on its own: a Proton or an Electron made by new or         *)
(* with_velocity, then any sequence of apply_force and clear_forces.       *)
(* law_call holds the last call; law_ret holds the position and velocity   *)
(* given to the constructor, the sum of the forces applied since the last  *)
(* clear_forces, and the number of calls made.                             *)

ParticlePositions == {<<0, 0, 0>>, <<1, 2, 3>>}

ConstructorCalls ==
    [fn : {"new"}, species : {"Proton", "Electron"}, position : ParticlePositions]
        \cup [fn : {"with_velocity"}, species : {"Proton", "Electron"},
              position : ParticlePositions, velocity : {<<0, 0, 0>>, <<0, -5, 4>>}]

Constructed(call) ==
    IF call.fn = "new" THEN Particle_new(call.position)
                       ELSE Particle_with_velocity(call.position, call.velocity)

rest_vars == <<proton_transforms, electron_transforms, touch_input, mouse_down,
               pc, substep, particle_ix, phase, loop_old_accel, frame,
               phase1_done, phase2_done, singular_seen, pass_entry, step_entry,
               substeps_done>>

ParticleInit ==
    /\ law_call \in ConstructorCalls
    /\ protons = IF law_call.species = "Proton" THEN <<Constructed(law_call)>>
                                                ELSE <<>>
    /\ electrons = IF law_call.species = "Electron" THEN <<Constructed(law_call)>>
                                                    ELSE <<>>
    /\ law_pc = "particle"
    /\ law_ret = Ok([position |-> Constructed(law_call).position,
                     velocity |-> Constructed(law_call).velocity,
                     applied  |-> VZero,
                     ops      |-> 0])
    /\ proton_transforms = <<>>
    /\ electron_transforms = <<>>
    /\ touch_input = TouchInput_default
    /\ mouse_down = FALSE
    /\ pc = "off"
    /\ substep = 0
    /\ particle_ix = 0
    /\ phase = "none"
    /\ loop_old_accel = VZero
    /\ frame = 0
    /\ phase1_done = {}
    /\ phase2_done = {}
    /\ singular_seen = FALSE
    /\ pass_entry = [protons |-> <<>>, electrons |-> <<>>]
    /\ step_entry = [protons |-> <<>>, electrons |-> <<>>]
    /\ substeps_done = 0

\* The particle under the calls.
TheParticle == IF Len(protons) = 1 THEN protons[1] ELSE electrons[1]

SetTheParticle(particle) ==
    IF Len(protons) = 1
    THEN protons' = <<particle>> /\ UNCHANGED electrons
    ELSE electrons' = <<particle>> /\ UNCHANGED protons

ParticleApplyForce ==
    /\ law_pc = "particle"
    /\ law_ret.value.ops < MaxOps
    /\ \E force \in {<<1, 0, 0>>, <<-1, 0, 0>>, <<0, 2, 3>>} :
          /\ SetTheParticle(apply_force(TheParticle, force))
          /\ law_call' = [fn |-> "apply_force", force |-> force]
          /\ law_ret' = Ok([law_ret.value EXCEPT
                                !.applied = VAdd(@, force), !.ops = @ + 1])
    /\ UNCHANGED <<law_pc, rest_vars>>

ParticleClearForces ==
    /\ law_pc = "particle"
    /\ law_ret.value.ops < MaxOps
    /\ SetTheParticle(clear_forces(TheParticle))
    /\ law_call' = [fn |-> "clear_forces"]
    /\ law_ret' = Ok([law_ret.value EXCEPT !.applied = VZero, !.ops = @ + 1])
    /\ UNCHANGED <<law_pc, rest_vars>>

ParticleNext ==
    \/ ParticleApplyForce
    \/ ParticleClearForces

SpecParticle == ParticleInit /\ [][ParticleNext]_vars

\* C20: a particle made by new or with_velocity has zero accumulated force
\* (and zero velocity when made by new); after any sequence of apply_force
\* and clear_forces its accumulated force is the vector sum of the forces
\* applied since the last clear_forces, or since construction, and is zero
\* right after clear_forces; its position and velocity are those it was
\* constructed with.
C20_ForceAccumulation ==
    law_pc = "particle" =>
        /\ Len(protons) + Len(electrons) = 1
        /\ TheParticle.force = law_ret.value.applied
        /\ TheParticle.position = law_ret.value.position
        /\ TheParticle.velocity = law_ret.value.velocity
        /\ law_call.fn \in {"new", "with_velocity"} =>
               /\ TheParticle.force = VZero
               /\ TheParticle.position = law_call.position
        /\ law_call.fn = "new" => TheParticle.velocity = VZero
        /\ law_call.fn = "with_velocity" => TheParticle.velocity = law_call.velocity
        /\ law_call.fn = "clear_forces" => TheParticle.force = VZero

\* An electron with a velocity, after clear_forces and two apply_force.
C20_Witness ==
    /\ law_pc = "particle"
    /\ Len(electrons) = 1
    /\ law_call.fn = "apply_force"
    /\ law_ret.value.ops = 3
    /\ electrons[1] = [position |-> <<1, 2, 3>>, velocity |-> <<0, -5, 4>>,
                        force |-> <<1, 2, 3>>]

----------------------------------------------------------------------------
(* verlet_full_step called repeatedly beside the two-step process of the   *)
(* integrator's tests, both started from one particle under the force      *)
(* F = -k x of harmonic_oscillator_conserves_energy.  law_call holds the   *)
(* parameters; law_ret holds the particle driven by verlet_full_step, the  *)
(* particle driven by the two steps, and the number of steps made.         *)

FullStepCalls ==
    [fn : {"verlet_full_step"}, mass : {ELECTRON_MASS},
     position : {<<4, 0, 0>>, <<0, 0, 0>>, <<-2, 6, 0>>},
     velocity : {<<0, 0, 0>>, <<2, 0, 0>>, <<0, -4, 2>>},
     k : {0, 1, 2}, dt : {1, 2}]

\* The closure |pos| -k * pos handed to verlet_full_step.
HarmonicForce(k) == [pos \in Seq(Int) |-> VScale(pos, -k)]

\* verlet_position_step, the caller's force at the new position,
\* verlet_velocity_step.
two_step_process(particle, mass, dt, force_calc) ==
    LET step1 == verlet_position_step(particle, mass, dt)
        moved == [step1.particle EXCEPT !.force = force_calc[step1.particle.position]]
    IN  verlet_velocity_step(moved, mass, step1.accel, dt)

FullStepInit ==
    /\ DriverOff
    /\ law_pc = "full_step"
    /\ law_call \in FullStepCalls
    /\ LET start == [position |-> law_call.position,
                     velocity |-> law_call.velocity,
                     force    |-> HarmonicForce(law_call.k)[law_call.position]]
       IN  law_ret = Ok([full |-> start, two_step |-> start, steps |-> 0])

FullStepBoth ==
    /\ law_pc = "full_step"
    /\ law_ret.value.steps < MaxSteps
    /\ law_ret' = Ok([full     |-> verlet_full_step(law_ret.value.full, law_call.mass,
                                        law_call.dt, HarmonicForce(law_call.k)),
                      two_step |-> two_step_process(law_ret.value.two_step,
                                        law_call.mass, law_call.dt,
                                        HarmonicForce(law_call.k)),
                      steps    |-> law_ret.value.steps + 1])
    /\ UNCHANGED <<driver_vars, law_pc, law_call>>

SpecFullStep == FullStepInit /\ [][FullStepBoth]_vars

\* C21: any number n >= 1 of calls of verlet_full_step leaves the particle
\* at the position and with the velocity that n iterations of the two-step
\* process (verlet_position_step, force at the new position,
\* verlet_velocity_step) give from the same start.
C21_FullStepEqualsTwoStepProcess ==
    (law_pc = "full_step" /\ law_ret.value.steps >= 1) =>
        /\ law_ret.value.full.position = law_ret.value.two_step.position
        /\ law_ret.value.full.velocity = law_ret.value.two_step.velocity

----------------------------------------------------------------------------
(* The shimmer animation of the electron cloud                             *)
(* (src/src/rendering/electron_cloud.rs).  A phase is a whole number of    *)
(* milliradians, a delta_time a whole number of milliseconds and a         *)
(* shimmer_frequency a whole number of radians per second, so that         *)
(* shimmer_frequency * delta_time is in milliradians.  law_ret holds the   *)
(* visual and the number of calls made; law_call holds the last call and   *)
(* the visual it was made on.                                              *)

\* std::f32::consts::TAU, in milliradians
TAU == 6283

\* ElectronCloudVisual::default(): the fields the animation reads.
ElectronCloudVisual_default == [shimmer_phase |-> 0, shimmer_frequency |-> 2]

update_shimmer(self, delta_time) ==
    LET advanced == [self EXCEPT
                         !.shimmer_phase = @ + self.shimmer_frequency * delta_time]
    IN  IF advanced.shimmer_phase > TAU
        THEN [advanced EXCEPT !.shimmer_phase = @ - TAU]
        ELSE advanced

ShimmerInit ==
    /\ DriverOff
    /\ law_pc = "shimmer"
    /\ law_call = NoCall
    \* Phases a host or a test writes to the public field: 0, FRAC_PI_2,
    \* 3 * FRAC_PI_2 and TAU.
    /\ \E phase0 \in {0, 1571, 4712, TAU},
          frequency \in {1, ElectronCloudVisual_default.shimmer_frequency} :
          law_ret = Ok([visual |-> [ElectronCloudVisual_default EXCEPT
                                        !.shimmer_phase = phase0,
                                        !.shimmer_frequency = frequency],
                        ops |-> 0])

UpdateShimmer ==
    /\ law_pc = "shimmer"
    /\ law_ret.value.ops < MaxOps
    \* Time::delta_secs() of a frame: none, a 60 Hz frame, a quarter second, the
    \* second of the test shimmer_update, and stalls of some seconds.
    /\ \E delta_time \in {0, 16, 250, 1000, 3141, 4000, 7000} :
          /\ law_call' = [fn |-> "update_shimmer", self |-> law_ret.value.visual,
                          delta_time |-> delta_time]
          /\ law_ret' = Ok([visual |-> update_shimmer(law_ret.value.visual, delta_time),
                            ops |-> law_ret.value.ops + 1])
    /\ UNCHANGED <<driver_vars, law_pc>>

SpecShimmer == ShimmerInit /\ [][UpdateShimmer]_vars

\* C30: a call update_shimmer(delta_time) with delta_time >= 0 on a phase
\* in [0, TAU] leaves the phase in [0, TAU], equal to the old phase plus
\* shimmer_frequency * delta_time modulo TAU.
C30_ShimmerPhaseStaysInRange ==
    (/\ law_pc = "shimmer"
     /\ law_call.fn = "update_shimmer"
     /\ law_call.self.shimmer_phase \in 0..TAU) =>
        /\ law_ret.value.visual.shimmer_phase \in 0..TAU
        /\ (law_call.self.shimmer_phase
              + law_call.self.shimmer_frequency * law_call.delta_time
              - law_ret.value.visual.shimmer_phase) % TAU = 0

----------------------------------------------------------------------------
(* f64 as a binary floating-point number, for the integrator's energy      *)
(* tests.  A number is m * 2^e with a significand m of 30 bits,            *)
(* 2^29 <= |m| < 2^30, or m = 0; every operation rounds its exact result   *)
(* to the nearest such number, as IEEE 754 arithmetic rounds to 53 bits.   *)
(* The exponent is unbounded: the tests stay far from overflow and         *)
(* underflow.                                                              *)

F64(m, e) == [m |-> m, e |-> e]

F64_Zero == F64(0, 0)

\* Shifts a significand 0 < a < 2^30 left until it has 30 bits.
RECURSIVE F64_Grow(_, _)
F64_Grow(a, e) ==
    IF a >= 2^29 THEN F64(a, e)
    ELSE IF a < 2^21 THEN F64_Grow(a * 256, e - 8)
    ELSE F64_Grow(a * 2, e - 1)

\* The number nearest to m * 2^e, for |m| < 2^31 - 1.
F64_Round(m, e) ==
    IF m = 0 THEN F64_Zero
    ELSE IF Abs(m) >= 2^30
    THEN LET h == (Abs(m) + 1) \div 2
         IN  IF h >= 2^30 THEN F64(Sign(m) * (h \div 2), e + 2)
                          ELSE F64(Sign(m) * h, e + 1)
    ELSE LET g == F64_Grow(Abs(m), e)
         IN  F64(Sign(m) * g.m, g.e)

\* An operation binds each operand to a name with `x \in {a}`, so that the
\* operand is evaluated once however often the operation reads it.
F64_Neg(a) == CHOOSE r \in {F64(-x.m, x.e) : x \in {a}} : TRUE

\* a + b: the operand of the smaller exponent is shifted right, rounded.
F64_Add(a, b) ==
    CHOOSE sum \in
        {IF x.m = 0 THEN y
         ELSE IF y.m = 0 THEN x
         ELSE LET hi == IF x.e >= y.e THEN x ELSE y
                  lo == IF x.e >= y.e THEN y ELSE x
                  d  == hi.e - lo.e
              IN  IF d > 30 THEN hi
                  ELSE IF d = 0 THEN F64_Round(hi.m + lo.m, hi.e)
                  ELSE F64_Round(hi.m + Sign(lo.m)
                                        * ((Abs(lo.m) + 2^(d - 1)) \div 2^d),
                                 hi.e)
         : x \in {a}, y \in {b}} : TRUE

F64_Sub(a, b) == F64_Add(a, F64_Neg(b))

\* a * b: the 60-bit product of the significands from their 15-bit halves.
F64_Mul(a, b) ==
    CHOOSE product \in
        {IF x.m = 0 \/ y.m = 0 THEN F64_Zero
         ELSE LET ah == Abs(x.m) \div 32768
                  al == Abs(x.m) % 32768
                  bh == Abs(y.m) \div 32768
                  bl == Abs(y.m) % 32768
                  mid == ah * bl + al * bh
                  low == (al * bl) \div 32768
                  s  == Sign(x.m) * Sign(y.m)
              IN  IF ah * bh + (mid + low) \div 32768 >= 2^29
                  THEN F64_Round(s * (ah * bh + (mid + low + 16384) \div 32768),
                                 x.e + y.e + 30)
                  ELSE F64_Round(s * (2 * ah * bh + (mid + low + 8192) \div 16384),
                                 x.e + y.e + 29)
         : x \in {a}, y \in {b}} : TRUE

\* n further bits of the quotient q of a long division by y, with the
\* remainder r < y.
RECURSIVE F64_DivBits(_, _, _, _)
F64_DivBits(q, r, y, n) ==
    IF n = 0 THEN [q |-> q, r |-> r]
    ELSE IF 2 * r >= y THEN F64_DivBits(2 * q + 1, 2 * r - y, y, n - 1)
    ELSE F64_DivBits(2 * q, 2 * r, y, n - 1)

\* a / b for b # 0: 30 bits of the quotient by long division, rounded by
\* the remainder.
F64_Div(a, b) ==
    CHOOSE quotient \in
        {IF n.m = 0 THEN F64_Zero
         ELSE LET y  == Abs(d.m)
                  x  == IF Abs(n.m) >= y THEN Abs(n.m) ELSE 2 * Abs(n.m)
                  e0 == IF Abs(n.m) >= y THEN 0 ELSE -1
              IN  CHOOSE r \in
                      {F64_Round(Sign(n.m) * Sign(d.m)
                                     * (IF 2 * bits.r >= y THEN bits.q + 1 ELSE bits.q),
                                 n.e - d.e + e0 - 29)
                       : bits \in {F64_DivBits(1, x - y, y, 29)}} : TRUE
         : n \in {a}, d \in {b}} : TRUE

\* f64::sqrt of a >= 0: the integer square root of the significand,
\* refined by two steps of Newton's iteration s -> (s + a / s) / 2.
F64_Sqrt(a) ==
    CHOOSE root \in
        {IF x.m = 0 THEN F64_Zero
         ELSE LET odd == x.e % 2 # 0
                  m2  == IF odd THEN 2 * x.m ELSE x.m
                  e2  == IF odd THEN x.e - 1 ELSE x.e
              IN  CHOOSE s2 \in
                      {F64(t2.m, t2.e - 1)
                       : t2 \in {F64_Add(s1, F64_Div(x, s1))
                                 : s1 \in {F64(t1.m, t1.e - 1)
                                           : t1 \in {F64_Add(s0, F64_Div(x, s0))
                                                     : s0 \in {F64_Round(Sqrt(m2),
                                                                         e2 \div 2)}}}}}
                      : TRUE
         : x \in {a}} : TRUE

F64_Less(a, b) == F64_Sub(a, b).m < 0

\* The decimal literal d * 10^k, d an integer of at most nine digits.
RECURSIVE Dec(_, _)
Dec(d, k) ==
    IF k = 0 THEN F64_Round(d, 0)
    ELSE IF k >= 9 THEN F64_Mul(Dec(d, k - 9), F64_Round(10^9, 0))
    ELSE IF k > 0 THEN F64_Mul(F64_Round(d, 0), F64_Round(10^k, 0))
    ELSE IF k <= -9 THEN F64_Div(Dec(d, k + 9), F64_Round(10^9, 0))
    ELSE F64_Div(F64_Round(d, 0), F64_Round(10^(-k), 0))

\* DVec3 over these numbers.
FV_Zero == <<F64_Zero, F64_Zero, F64_Zero>>

FV_Add(a, b) ==
    CHOOSE v \in {<<F64_Add(x[1], y[1]), F64_Add(x[2], y[2]), F64_Add(x[3], y[3])>>
                  : x \in {a}, y \in {b}} : TRUE

FV_Sub(a, b) ==
    CHOOSE v \in {<<F64_Sub(x[1], y[1]), F64_Sub(x[2], y[2]), F64_Sub(x[3], y[3])>>
                  : x \in {a}, y \in {b}} : TRUE

FV_Scale(a, k) ==
    CHOOSE v \in {<<F64_Mul(x[1], c), F64_Mul(x[2], c), F64_Mul(x[3], c)>>
                  : x \in {a}, c \in {k}} : TRUE

FV_Div(a, k) ==
    CHOOSE v \in {<<F64_Div(x[1], c), F64_Div(x[2], c), F64_Div(x[3], c)>>
                  : x \in {a}, c \in {k}} : TRUE

\* DVec3::dot, DVec3::length_squared
FV_Dot(a, b) ==
    CHOOSE dot \in {F64_Add(F64_Add(F64_Mul(x[1], y[1]), F64_Mul(x[2], y[2])),
                            F64_Mul(x[3], y[3]))
                    : x \in {a}, y \in {b}} : TRUE

FV_Length(a) == F64_Sqrt(FV_Dot(a, a))

\* The literal 0.5 of the integrator.
F64_Half == Dec(5, -1)

\* TestParticle::new(mass).at(position).with_velocity(velocity)
TestParticle(mass, position, velocity) ==
    [mass |-> mass, position |-> position, velocity |-> velocity, force |-> FV_Zero]

\* verlet_position_step in these numbers; returns the particle and accel.
verlet_position_step_f64(particle, dt) ==
    LET pos   == particle.position
        vel   == particle.velocity
        force == particle.force
        mass  == particle.mass
        accel == FV_Div(force, mass)
        new_pos == FV_Add(FV_Add(pos, FV_Scale(vel, dt)),
                          FV_Scale(FV_Scale(FV_Scale(accel, F64_Half), dt), dt))
    IN  [particle |-> [particle EXCEPT !.position = new_pos], accel |-> accel]

\* verlet_velocity_step in these numbers, advancing the velocity by the new
\* acceleration alone.
verlet_velocity_step_f64_new_accel_only(particle, old_accel, dt) ==
    LET vel   == particle.velocity
        force == particle.force
        mass  == particle.mass
        new_accel == FV_Div(force, mass)
        new_vel == FV_Add(vel, FV_Scale(new_accel, dt))
    IN  [particle EXCEPT !.velocity = new_vel]

\* verlet_velocity_step in these numbers.
verlet_velocity_step_f64(particle, old_accel, dt) ==
    LET vel   == particle.velocity
        force == particle.force
        mass  == particle.mass
        new_accel == FV_Div(force, mass)
        new_vel == FV_Add(vel, FV_Scale(FV_Scale(FV_Add(old_accel, new_accel),
                                                 F64_Half), dt))
    IN  [particle EXCEPT !.velocity = new_vel]

\* kinetic_energy
kinetic_energy(particle) ==
    F64_Mul(F64_Mul(F64_Half, particle.mass),
            FV_Dot(particle.velocity, particle.velocity))

\* |a - b| < |b| * max_relative
RelativeBelow(a, b, max_relative) ==
    LET diff == F64_Sub(a, b)
    IN  F64_Less(F64(Abs(diff.m), diff.e),
                 F64_Mul(F64(Abs(b.m), b.e), max_relative))

\* The physical constants as the f64 literals of constants.rs, to nine
\* significant digits.
F64_COULOMB_CONSTANT == Dec(898755179, 1)

F64_ELEMENTARY_CHARGE == Dec(160217663, -27)

F64_ELECTRON_MASS == Dec(910938370, -39)

F64_ANGSTROM == Dec(1, -10)

\* coulomb_force in these numbers, with the displacement taken from
\* particle 1 to particle 2.
coulomb_force_f64_reversed_displacement(q1, q2, r1, r2) ==
    LET displacement == FV_Sub(r2, r1)
        distance     == FV_Length(displacement)
    IN  IF ~(distance.m > 0) THEN Panic(Singularity)
        ELSE LET magnitude == F64_Div(F64_Mul(F64_Mul(F64_COULOMB_CONSTANT, q1), q2),
                                      F64_Mul(distance, distance))
                 direction == FV_Div(displacement, distance)
             IN  Ok(FV_Scale(direction, magnitude))

\* coulomb_force in these numbers.
coulomb_force_f64(q1, q2, r1, r2) ==
    LET displacement == FV_Sub(r1, r2)
        distance     == FV_Length(displacement)
    IN  IF ~(distance.m > 0) THEN Panic(Singularity)
        ELSE LET magnitude == F64_Div(F64_Mul(F64_Mul(F64_COULOMB_CONSTANT, q1), q2),
                                      F64_Mul(distance, distance))
                 direction == FV_Div(displacement, distance)
             IN  Ok(FV_Scale(direction, magnitude))

----------------------------------------------------------------------------
(* The integrator's test harmonic_oscillator_conserves_energy: a particle  *)
(* of mass 1 on a spring F = -k x, k = 1, released at x0 = 1, stepped      *)
(* 10,000 times with dt = 0.001.  law_call holds the parameters, law_ret   *)
(* the particle and the number of steps made.                              *)

\* `let steps = 10000`
HarmonicSteps == 10000

\* `DVec3::new(-k * particle.position.x, 0.0, 0.0)`
harmonic_force(k, particle) ==
    <<F64_Mul(F64_Neg(k), particle.position[1]), F64_Zero, F64_Zero>>

\* The body of the test's loop.
harmonic_step(particle, k, dt) ==
    LET step1 == verlet_position_step_f64(particle, dt)
        moved == [step1.particle EXCEPT !.force = harmonic_force(k, step1.particle)]
    IN  verlet_velocity_step_f64(moved, step1.accel, dt)

\* `0.5 * k * x0 * x0`
harmonic_initial_energy(c) ==
    F64_Mul(F64_Mul(F64_Mul(F64_Half, c.k), c.x0), c.x0)

\* `kinetic_energy(&particle) + 0.5 * k * particle.position.x.powi(2)`
harmonic_energy(k, particle) ==
    F64_Add(kinetic_energy(particle),
            F64_Mul(F64_Mul(F64_Half, k),
                    F64_Mul(particle.position[1], particle.position[1])))

HarmonicInit ==
    /\ DriverOff
    /\ law_pc = "harmonic"
    /\ law_call = [fn |-> "harmonic_oscillator_conserves_energy",
                   mass |-> Dec(1, 0), k |-> Dec(1, 0), x0 |-> Dec(1, 0),
                   dt |-> Dec(1, -3)]
    /\ LET start == TestParticle(law_call.mass,
                                 <<law_call.x0, F64_Zero, F64_Zero>>, FV_Zero)
       IN  law_ret = Ok([particle |-> [start EXCEPT
                                           !.force = harmonic_force(law_call.k, start)],
                         steps |-> 0])

HarmonicStep ==
    /\ law_pc = "harmonic"
    /\ law_ret.value.steps < HarmonicSteps
    /\ law_ret' = Ok([particle |-> harmonic_step(law_ret.value.particle,
                                                 law_call.k, law_call.dt),
                      steps |-> law_ret.value.steps + 1])
    /\ UNCHANGED <<driver_vars, law_pc, law_call>>

SpecHarmonic == HarmonicInit /\ [][HarmonicStep]_vars

\* C22: after the 10,000 steps the total energy differs from the initial
\* energy 0.5 by less than 0.1 % of it.
C22_HarmonicEnergyConserved ==
    (law_pc = "harmonic" /\ law_ret.value.steps = HarmonicSteps) =>
        /\ harmonic_initial_energy(law_call) = Dec(5, -1)
        /\ RelativeBelow(harmonic_energy(law_call.k, law_ret.value.particle),
                         harmonic_initial_energy(law_call), Dec(1, -3))

\* The 10,000 steps are done: the particle has swung through the origin to
\* the other side and is moving back.
C22_Witness ==
    /\ law_pc = "harmonic"
    /\ law_ret.value.steps = HarmonicSteps
    /\ law_ret.value.particle.position[1].m < 0
    /\ law_ret.value.particle.velocity[1].m > 0
    /\ law_ret.value.particle.force[1].m > 0

----------------------------------------------------------------------------
(* The integrator's test two_body_coulomb_circular_orbit: an electron at   *)
(* radius r from a proton fixed at the origin, with the speed of the       *)
(* circular orbit, stepped 400 times with dt = 1e-19 under coulomb_force.  *)
(* law_call holds the parameters, law_ret the electron and the number of   *)
(* steps made, or the panic of coulomb_force.                              *)

\* `let steps = 400`
OrbitSteps == 400

\* r is the radius of the unit test, ANGSTROM, or that of the integration
\* test, BOHR_RADIUS.
OrbitCalls ==
    [fn : {"two_body_coulomb_circular_orbit"},
     r : {F64_ANGSTROM, Dec(529177211, -19)},
     proton_charge : {F64_ELEMENTARY_CHARGE}, dt : {Dec(1, -19)}]

\* coulomb_force on the electron from the proton at DVec3::ZERO.
orbit_force(c, electron) ==
    coulomb_force_f64(F64_Neg(F64_ELEMENTARY_CHARGE), c.proton_charge,
                      electron.position, FV_Zero)

\* The electron before the loop, with its initial force; orbital_velocity is
\* `(COULOMB_CONSTANT * ELEMENTARY_CHARGE.powi(2) / (ELECTRON_MASS * r)).sqrt()`
orbit_start(c) ==
    LET orbital_velocity ==
            F64_Sqrt(F64_Div(F64_Mul(F64_COULOMB_CONSTANT,
                                     F64_Mul(F64_ELEMENTARY_CHARGE,
                                             F64_ELEMENTARY_CHARGE)),
                             F64_Mul(F64_ELECTRON_MASS, c.r)))
        electron == TestParticle(F64_ELECTRON_MASS, <<c.r, F64_Zero, F64_Zero>>,
                                 <<F64_Zero, orbital_velocity, F64_Zero>>)
    IN  [electron EXCEPT !.force = orbit_force(c, electron).value]

\* The body of the test's loop: the electron after it, or the panic.
orbit_step(c, electron) ==
    LET step1 == verlet_position_step_f64(electron, c.dt)
        force == orbit_force(c, step1.particle)
    IN  IF force.panic THEN force
        ELSE Ok(verlet_velocity_step_f64([step1.particle EXCEPT !.force = force.value],
                                         step1.accel, c.dt))

\* `COULOMB_CONSTANT * (-ELEMENTARY_CHARGE) * proton_charge / r + kinetic_energy`
orbit_energy(c, electron) ==
    F64_Add(F64_Div(F64_Mul(F64_Mul(F64_COULOMB_CONSTANT,
                                    F64_Neg(F64_ELEMENTARY_CHARGE)),
                            c.proton_charge),
                    FV_Length(electron.position)),
            kinetic_energy(electron))

OrbitInit ==
    /\ DriverOff
    /\ law_pc = "orbit"
    /\ law_call \in OrbitCalls
    /\ law_ret = Ok([particle |-> orbit_start(law_call), steps |-> 0])

OrbitStep ==
    /\ law_pc = "orbit"
    /\ ~law_ret.panic
    /\ law_ret.value.steps < OrbitSteps
    /\ LET next == orbit_step(law_call, law_ret.value.particle)
       IN  law_ret' = IF next.panic THEN next
                      ELSE Ok([particle |-> next.value,
                               steps |-> law_ret.value.steps + 1])
    /\ UNCHANGED <<driver_vars, law_pc, law_call>>

SpecOrbit == OrbitInit /\ [][OrbitStep]_vars

\* C23: coulomb_force never panics on the orbit, and after the 400 steps
\* the total energy is within 1 % of the initial energy and the distance
\* from the proton within 5 % of r.
C23_OrbitEnergyAndRadiusKept ==
    law_pc = "orbit" =>
        /\ ~law_ret.panic
        /\ law_ret.value.steps = OrbitSteps =>
               /\ RelativeBelow(orbit_energy(law_call, law_ret.value.particle),
                                orbit_energy(law_call, orbit_start(law_call)),
                                Dec(1, -2))
               /\ RelativeBelow(FV_Length(law_ret.value.particle.position),
                                law_call.r, Dec(5, -2))

\* The 400 steps are done on the orbit of one Angstrom: the electron has
\* turned about the proton, its velocity pointing back toward the y axis.
C23_Witness ==
    /\ law_pc = "orbit"
    /\ ~law_ret.panic
    /\ law_call.r = F64_ANGSTROM
    /\ law_ret.value.steps = OrbitSteps
    /\ law_ret.value.particle.position[2].m > 0
    /\ law_ret.value.particle.velocity[1].m < 0
    /\ F64_Less(law_ret.value.particle.position[1], law_call.r)

----------------------------------------------------------------------------
(* The spring-force step on its own: the system apply_spring_force run     *)
(* once on a world and an anchor a host can build from the public fields   *)
(* of Proton, Electron and TouchInput.  law_call holds the particles as    *)
(* they were before the step.                                              *)

StepProtons ==
    {[position |-> <<6, 0, 0>>, velocity |-> VZero,        force |-> VZero],
     [position |-> <<6, 0, 0>>, velocity |-> <<1, 0, 0>>,  force |-> <<2, -1, 0>>],
     [position |-> <<0, 8, 0>>, velocity |-> <<0, -2, 0>>, force |-> <<0, 0, 5>>]}

SpringStepInit ==
    /\ protons \in {<<a>> : a \in StepProtons}
                    \cup {<<a, b>> : a \in StepProtons, b \in StepProtons}
    /\ electrons \in
           {<<[position |-> VZero, velocity |-> <<0, 5, 0>>, force |-> VZero]>>,
            <<[position |-> <<3, 4, 0>>, velocity |-> VZero,
               force |-> <<-3, 0, 1>>]>>}
    /\ proton_transforms =
           [i \in 1..Len(protons) |-> physics_to_screen(protons[i].position)]
    /\ electron_transforms =
           [j \in 1..Len(electrons) |-> physics_to_screen(electrons[j].position)]
    \* Every TouchInput value: the selection may be stale (present while
    \* inactive), absent while active, or name an entity that is no proton.
    /\ touch_input \in [active : BOOLEAN, position : {VZero, <<10, 4, 0>>},
                        selected_entity : {None, Some(1), Some(2), Some(3)}]
    /\ mouse_down = touch_input.active
    /\ pc = "apply_spring_force"
    /\ substep = 0
    /\ particle_ix = 0
    /\ phase = "none"
    /\ loop_old_accel = VZero
    /\ frame = 0
    /\ phase1_done = {}
    /\ phase2_done = {}
    /\ singular_seen = FALSE
    /\ pass_entry = [protons |-> protons, electrons |-> electrons]
    /\ step_entry = [protons |-> protons, electrons |-> electrons]
    /\ substeps_done = 0
    /\ law_pc = "spring_step"
    /\ law_call = [fn |-> "apply_spring_force", protons |-> protons,
                                                electrons |-> electrons]
    /\ law_ret = NoRet

SpecSpringStep == SpringStepInit /\ [][ApplySpringForce]_vars

\* The spring-force step of the frame has run.
SpringStepDone == law_pc = "spring_step" /\ pc = "apply_coulomb_forces"

\* C13: with an inactive anchor the spring-force step leaves every proton
\* and every electron as it was (force, position, velocity), whatever
\* position and selection the anchor holds.
C13_IdleSpringStepIsNoOp ==
    (SpringStepDone /\ ~touch_input.active) =>
        /\ protons = law_call.protons
        /\ electrons = law_call.electrons

\* An inactive anchor that still names proton 1 and a position away from it.
C13_Witness ==
    /\ SpringStepDone
    /\ ~touch_input.active
    /\ touch_input.selected_entity = Some(1)
    /\ touch_input.position = <<10, 4, 0>>
    /\ protons[1].force = <<2, -1, 0>>

\* C14: with an active anchor that selects proton s the spring-force step
\* adds spring_force(pos_s, vel_s, anchor position, config) to the force of
\* s, and leaves its position and velocity, every other proton and every
\* electron as they were.
C14_SpringForceAddedToSelected ==
    (/\ SpringStepDone
     /\ touch_input.active
     /\ touch_input.selected_entity.some
     /\ touch_input.selected_entity.value \in 1..Len(protons)) =>
        LET sel == touch_input.selected_entity.value
            old == law_call.protons
        IN  /\ protons[sel].force =
                   VAdd(old[sel].force,
                        spring_force(old[sel].position, old[sel].velocity,
                                     touch_input.position, MainSpringConfig))
            /\ protons[sel].position = old[sel].position
            /\ protons[sel].velocity = old[sel].velocity
            /\ \A i \in 1..Len(protons) : i # sel => protons[i] = old[i]
            /\ electrons = law_call.electrons

\* Proton 2 of two is dragged: it already carried a force and the spring
\* force, clamped to max_force, came on top; proton 1 carries a force too.
C14_Witness ==
    /\ SpringStepDone
    /\ touch_input.active
    /\ touch_input.selected_entity = Some(2)
    /\ touch_input.position = VZero
    /\ Len(protons) = 2
    /\ law_call.protons[2] = [position |-> <<6, 0, 0>>, velocity |-> <<1, 0, 0>>,
                              force |-> <<2, -1, 0>>]
    /\ law_call.protons[1].force = <<0, 0, 5>>
    /\ protons[2].force = <<-10, -1, 0>>

----------------------------------------------------------------------------
(* Properties of the substep driver.                                       *)

\* The forces a force pass (apply_spring_force, then apply_coulomb_forces)
\* accumulates from zero at the positions and velocities of this state.
FreshPass ==
    LET zp == [i \in 1..Len(protons) |-> clear_forces(protons[i])]
        ze == [j \in 1..Len(electrons) |-> clear_forces(electrons[j])]
    IN  apply_coulomb_forces(apply_spring_force(touch_input, MainSpringConfig, zp), ze)

FreshForce(k) ==
    IF IsProton(k) THEN FreshPass.protons[k].force
                   ELSE FreshPass.electrons[k - Len(protons)].force

AllForcesZero == \A k \in 1..ParticleCount : ParticleAt(k).force = VZero

AllDistinct ==
    \A k1, k2 \in 1..ParticleCount :
        k1 # k2 => ParticleAt(k1).position # ParticleAt(k2).position

\* The sum of coulomb_force(q_k, q_j, pos_k, pos_j) over the particles j # k
\* among the first n.
RECURSIVE CoulombSum(_, _)
CoulombSum(k, n) ==
    IF n = 0 THEN VZero
    ELSE IF n = k THEN CoulombSum(k, n - 1)
    ELSE VAdd(CoulombSum(k, n - 1),
              coulomb_force(ChargeOf(k), ChargeOf(n), ParticleAt(k).position,
                            ParticleAt(n).position).value)

\* physics_step is about to run its first statement of a substep.
SubstepStart == pc = "physics_step" /\ particle_ix = 1 /\ phase = "position"

\* C1: when phase 2 (verlet_velocity_step) is about to run on a particle,
\* the particle's accumulated force is the force recomputed at the positions
\* as they are now, after phase 1: spring on the selected proton plus
\* Coulomb, accumulated from zero.
C1_Phase2ReadsRecomputedForce ==
    (pc = "physics_step" /\ phase = "velocity" /\ ~FreshPass.panic) =>
        ParticleAt(particle_ix).force = FreshForce(particle_ix)

\* C2: within a substep no particle's phase 2 has run unless phase 1 has run
\* for every particle, and a force pass runs only with no particle advanced
\* ahead of the others.
C2_AllPhase1BeforeAnyPhase2 ==
    /\ phase2_done # {} => phase1_done = 1..ParticleCount
    /\ pc \in {"apply_spring_force", "apply_coulomb_forces"} => phase1_done = {}

\* C3: every particle's accumulated force is zero when a substep starts and
\* when a substep has ended.
C3_ForceZeroAtSubstepBoundaries ==
    (SubstepStart \/ pc = "sync_visuals") => AllForcesZero

\* C4: after a force pass with no active drag, at pairwise distinct
\* positions, every particle's accumulated force is the sum of the Coulomb
\* forces from all other particles, of either species.
C4_AllPairsAccumulated ==
    (SubstepStart /\ substep = 1 /\ ~touch_input.active /\ AllDistinct) =>
        \A k \in 1..ParticleCount : ParticleAt(k).force = CoulombSum(k, ParticleCount)

\* C6: a force pass that meets coincident particles ends the run at once,
\* and the run then stands with no substep half applied: phase 1 and
\* phase 2 of the substep have run for the same particles.
C6_SingularitySurfacedNoHalfSubstep ==
    /\ singular_seen => pc = "panicked"
    /\ pc = "panicked" => phase1_done = phase2_done /\ phase = "none"

\* The singularity arose in a frame after whole substeps had been run.
C6_Witness ==
    pc = "panicked" /\ singular_seen /\ frame >= 1 /\ phase1_done = phase2_done

\* C15: within a frame only the input-handling step changes the anchor;
\* that step is over before the spring-force step starts, and the
\* spring-force step, the Coulomb accumulation, every statement of the
\* substep loop and the visual sync leave the anchor as it is.
C15_AnchorChangedOnlyByInputStep ==
    [][/\ pc # "handle_mouse_input" => touch_input' = touch_input
       /\ pc = "handle_mouse_input" => pc' = "apply_spring_force"]_vars

\* The substep loop runs in a later frame under an active drag whose anchor
\* the input step has set.
C15_Witness ==
    /\ pc = "physics_step"
    /\ substep = 5
    /\ frame >= 1
    /\ touch_input.active
    /\ touch_input.selected_entity = Some(1)
    /\ touch_input.position = <<10, 4, 0>>

\* A particle of the iteration order of physics_step, as physics_step
\* found it on entry.
EntryAt(k) ==
    IF IsProton(k) THEN step_entry.protons[k]
                   ELSE step_entry.electrons[k - Len(protons)]

\* C16: physics_step, once entered, ends; it has then completed exactly
\* Substeps (10) substeps, each of the one sub_dt = dt / Substeps, which add
\* up to the frame's dt; and a particle that entered with zero accumulated
\* force ends the frame at position + velocity * dt with its velocity
\* unchanged.
C16_TenEqualSubstepsPerFrame ==
    /\ [](/\ Substeps = 10
          /\ Substeps * SubDt = SimDt
          /\ pc = "physics_step" => substeps_done = substep - 1
          /\ pc = "sync_visuals" =>
                 /\ substeps_done = Substeps
                 /\ \A k \in 1..ParticleCount :
                        EntryAt(k).force = VZero =>
                            /\ ParticleAt(k).position =
                                   VAdd(EntryAt(k).position,
                                        VScale(EntryAt(k).velocity, SimDt))
                            /\ ParticleAt(k).velocity = EntryAt(k).velocity)
    /\ (pc = "physics_step") ~> (pc = "sync_visuals")

\* The second frame has ended for a proton that drifts with no force on it
\* while the other proton of the world is dragged.
C16_Witness ==
    /\ pc = "sync_visuals"
    /\ frame = 1
    /\ substeps_done = Substeps
    /\ Len(protons) = 2
    /\ touch_input.active
    /\ step_entry.protons[2] = [position |-> <<10, 15, 0>>, velocity |-> <<1, 2, 0>>,
                                force |-> VZero]
    /\ protons[2].position = <<20, 35, 0>>

\* C24: verlet_position_step changes the position of its particle and
\* nothing else (the accumulated force is not cleared, the velocity is
\* kept); verlet_velocity_step changes the velocity of its particle and
\* nothing else; neither touches another particle.
C24_VerletStepsChangeOneField ==
    [][ /\ (pc = "physics_step" /\ phase = "position") =>
              \A k \in 1..ParticleCount :
                  /\ ParticleAt(k)'.velocity = ParticleAt(k).velocity
                  /\ ParticleAt(k)'.force = ParticleAt(k).force
                  /\ k # particle_ix => ParticleAt(k)'.position = ParticleAt(k).position
        /\ (pc = "physics_step" /\ phase = "velocity") =>
              \A k \in 1..ParticleCount :
                  /\ ParticleAt(k)'.position = ParticleAt(k).position
                  /\ ParticleAt(k)'.force = ParticleAt(k).force
                  /\ k # particle_ix => ParticleAt(k)'.velocity = ParticleAt(k).velocity
      ]_vars

\* Both steps of the first substep have run on a particle that carries a
\* force: it has moved, its velocity has changed and the force is still the
\* one it entered with.
C24_Witness ==
    /\ pc = "physics_step"
    /\ substep = 1
    /\ phase = "clear"
    /\ ParticleAt(particle_ix).force # VZero
    /\ ParticleAt(particle_ix).force = EntryAt(particle_ix).force
    /\ ParticleAt(particle_ix).position # EntryAt(particle_ix).position
    /\ ParticleAt(particle_ix).velocity # EntryAt(particle_ix).velocity

\* A particle of the iteration order of physics_step, as the frame's force
\* pass found it.
PassEntryAt(k) ==
    IF IsProton(k) THEN pass_entry.protons[k]
                   ELSE pass_entry.electrons[k - Len(protons)]

\* The spring term of the pass for particle k, from the state the pass
\* started in.
EntrySpringTerm(k) ==
    IF IsProton(k) /\ touch_input.active /\ touch_input.selected_entity = Some(k)
    THEN spring_force(PassEntryAt(k).position, PassEntryAt(k).velocity,
                      touch_input.position, MainSpringConfig)
    ELSE VZero

\* The particles of the other species than particle k's.
OtherSpecies(k) ==
    IF IsProton(k) THEN (Len(protons) + 1)..ParticleCount ELSE 1..Len(protons)

\* The Coulomb terms of the pass for particle k from the sources in S,
\* computed from the positions the pass started with and added from the
\* last source to the first.
RECURSIVE EntryCoulombTerms(_, _)
EntryCoulombTerms(k, S) ==
    IF S = {} THEN VZero
    ELSE LET j == CHOOSE x \in S : \A y \in S : y <= x
         IN  VAdd(coulomb_force(ChargeOf(k), ChargeOf(j), PassEntryAt(k).position,
                                PassEntryAt(j).position).value,
                  EntryCoulombTerms(k, S \ {j}))

\* The force pass of the frame has run: the Coulomb step is next, or it
\* has just completed, or it has panicked.
SpringStepOver == pc \in {"apply_coulomb_forces", "panicked"}

PassOver == SubstepStart /\ substep = 1

\* C25: a force pass (spring step, then Coulomb step) leaves every
\* particle's position and velocity as it found them, also when it panics;
\* the spring step adds the spring term to the selected proton only, and
\* the completed pass has added to every particle the Coulomb terms
\* computed from the positions and charges of the start of the pass,
\* whatever the order in which the terms are summed.
C25_ForcePassChangesOnlyForces ==
    /\ (SpringStepOver \/ PassOver) =>
           \A k \in 1..ParticleCount :
               /\ ParticleAt(k).position = PassEntryAt(k).position
               /\ ParticleAt(k).velocity = PassEntryAt(k).velocity
    /\ pc = "apply_coulomb_forces" =>
           \A k \in 1..ParticleCount :
               ParticleAt(k).force = VAdd(PassEntryAt(k).force, EntrySpringTerm(k))
    /\ PassOver =>
           \A k \in 1..ParticleCount :
               ParticleAt(k).force =
                   VAdd(VAdd(PassEntryAt(k).force, EntrySpringTerm(k)),
                        EntryCoulombTerms(k, OtherSpecies(k)))

\* A pass has completed in a world of one dragged proton and two electrons:
\* the proton carries a spring term and two Coulomb terms, both electrons
\* carry a Coulomb term.
C25_Witness ==
    /\ PassOver
    /\ touch_input.active
    /\ Len(electrons) = 2
    /\ EntrySpringTerm(1) # VZero
    /\ EntryCoulombTerms(1, {2}) # VZero
    /\ EntryCoulombTerms(1, {3}) # VZero
    /\ \A k \in 1..ParticleCount : ParticleAt(k).force # VZero

\* The vector sum of the accumulated forces of the first n particles.
RECURSIVE TotalForce(_)
TotalForce(n) ==
    IF n = 0 THEN VZero ELSE VAdd(TotalForce(n - 1), ParticleAt(n).force)

\* C27: after a Coulomb pass with no active drag, started from zero
\* accumulated forces on particles at pairwise distinct positions, the
\* accumulated forces of all particles add up to the zero vector.
C27_CoulombPassNetForceZero ==
    (/\ PassOver
     /\ ~touch_input.active
     /\ AllDistinct
     /\ \A k \in 1..ParticleCount : PassEntryAt(k).force = VZero) =>
        TotalForce(ParticleCount) = VZero

\* A pass has completed on two protons and one electron with no drag; every
\* particle carries a force.
C27_Witness ==
    /\ PassOver
    /\ ~touch_input.active
    /\ AllDistinct
    /\ Len(protons) = 2
    /\ Len(electrons) = 1
    /\ \A k \in 1..ParticleCount :
           PassEntryAt(k).force = VZero /\ ParticleAt(k).force # VZero
    /\ TotalForce(ParticleCount) = VZero

\* C28: when coulomb_force panics during a frame's force accumulation,
\* every particle's accumulated force is what it was before that
\* accumulation began: no spring force and no Coulomb term of the failed
\* pass remains.
C28_FailedPassLeavesNoForce ==
    pc = "panicked" =>
        \A k \in 1..ParticleCount : ParticleAt(k).force = PassEntryAt(k).force

\* C29: an input step that observes the release of the left button while a
\* drag is active ends the drag (inactive, nothing selected), whatever the
\* cursor is in that frame: inside the window, outside it, or with a new
\* press observed in the same frame.
C29_ReleaseEndsDrag ==
    [][ \A mouse_button \in MouseStates(mouse_down), cursor \in CursorStates :
            (/\ pc = "handle_mouse_input"
             /\ pc' = "apply_spring_force"
             /\ touch_input.active
             /\ mouse_button.just_released
             /\ touch_input' = handle_mouse_input(touch_input, proton_transforms,
                                                  mouse_button, cursor)
             /\ mouse_down' = mouse_button.pressed) =>
                (~touch_input'.active /\ touch_input'.selected_entity = None)
      ]_vars

----------------------------------------------------------------------------
(* Properties of the force laws.                                           *)

Returned(fn) == law_pc = "returned" /\ law_call.fn = fn

\* C5: coulomb_force at two equal positions and coulomb_force_magnitude at
\* distance 0 panic with the singularity message, whatever the charges, and
\* return no value.
C5_ZeroDistancePanics ==
    /\ (Returned("coulomb_force") /\ law_call.r1 = law_call.r2) =>
           law_ret = Panic(Singularity)
    /\ (Returned("coulomb_force_magnitude") /\ law_call.distance = 0) =>
           law_ret = Panic(Singularity)

C5_Witness ==
    /\ Returned("coulomb_force_magnitude")
    /\ law_call.distance = 0
    /\ law_call.q1 # 0 /\ law_call.q2 # 0
    /\ law_ret.panic

\* C7: a SpringConfig with negative max_force is rejected when it is
\* constructed.
C7_NegativeMaxForceRejected ==
    (Returned("SpringConfig") /\ law_call.max_force < 0) => law_ret.panic

\* C8: at distinct positions coulomb_force(q1, q2, p1, p2) is the
\* component-wise negation of coulomb_force(q2, q1, p2, p1).
C8_NewtonThirdLaw ==
    (Returned("coulomb_force") /\ law_call.r1 # law_call.r2) =>
        LET back == coulomb_force(law_call.q2, law_call.q1, law_call.r2, law_call.r1)
        IN  /\ ~law_ret.panic
            /\ ~back.panic
            /\ law_ret.value = VNeg(back.value)

C8_Witness ==
    /\ Returned("coulomb_force")
    /\ law_call.r1 = <<3, 4, 0>> /\ law_call.r2 = <<0, 0, 0>>
    /\ law_call.q1 = 2 /\ law_call.q2 = -1
    /\ ~law_ret.panic
    /\ law_ret.value[1] < 0 /\ law_ret.value[2] < 0

\* The square root and every division coulomb_force performs on these
\* arguments are exact in integers.
ExactCoulomb(q1, q2, r1, r2) ==
    LET d    == VSub(r1, r2)
        dist == Length(d)
    IN  /\ IsSquare(Dot(d, d))
        /\ dist > 0
        /\ (COULOMB_CONSTANT * q1 * q2) % (dist * dist) = 0
        /\ \A i \in 1..3 :
               (d[i] * Quot(COULOMB_CONSTANT * q1 * q2, dist * dist)) % dist = 0

\* C17: at a distance > 0 coulomb_force_magnitude is positive for charges
\* of the same sign and negative for charges of opposite signs; the vector
\* coulomb_force on particle 1 points away from particle 2 for like charges
\* and toward it for opposite charges, and has no component perpendicular
\* to the line through the two particles: none at all where the divisions
\* are exact, and less than the truncation of one unit per component
\* elsewhere.
C17_SignConvention ==
    /\ (/\ Returned("coulomb_force_magnitude")
        /\ law_call.distance > 0
        /\ law_call.q1 # 0 /\ law_call.q2 # 0) =>
           /\ ~law_ret.panic
           /\ Sign(law_call.q1) = Sign(law_call.q2) => law_ret.value > 0
           /\ Sign(law_call.q1) # Sign(law_call.q2) => law_ret.value < 0
    /\ (/\ Returned("coulomb_force")
        /\ law_call.r1 # law_call.r2
        /\ law_call.q1 # 0 /\ law_call.q2 # 0) =>
           LET away == VSub(law_call.r1, law_call.r2)
           IN  /\ ~law_ret.panic
               /\ Sign(law_call.q1) = Sign(law_call.q2) =>
                      Dot(law_ret.value, away) > 0
               /\ Sign(law_call.q1) # Sign(law_call.q2) =>
                      Dot(law_ret.value, away) < 0
               /\ \A i \in 1..3 : away[i] = 0 => law_ret.value[i] = 0
               /\ ExactCoulomb(law_call.q1, law_call.q2, law_call.r1, law_call.r2) =>
                      Cross(law_ret.value, away) = VZero
               /\ \A i \in 1..3 :
                      Abs(Cross(law_ret.value, away)[i])
                          < Abs(away[1]) + Abs(away[2]) + Abs(away[3])

\* Two negative charges on the y axis: the force on the first points away
\* from the second, along the axis.
C17_Witness ==
    /\ Returned("coulomb_force")
    /\ law_call.q1 = -1 /\ law_call.q2 = -1
    /\ law_call.r1 = <<0, 4, 0>> /\ law_call.r2 = <<0, 0, 0>>
    /\ law_ret = Ok(<<0, 225, 0>>)

\* C18: at every distance d > 0 the magnitude at d is four times the
\* magnitude at 2d, and magnitude times distance squared is k*q1*q2 at both
\* distances.  Where k*q1*q2 is no multiple of (2d)^2 the quotients are
\* truncated and the two sides agree to within the truncation.
C18_InverseSquare ==
    (Returned("coulomb_force_magnitude") /\ law_call.distance > 0) =>
        LET d    == law_call.distance
            kqq  == COULOMB_CONSTANT * law_call.q1 * law_call.q2
            far  == coulomb_force_magnitude(law_call.q1, law_call.q2, 2 * d)
        IN  /\ ~law_ret.panic
            /\ ~far.panic
            /\ Abs(law_ret.value) - 4 * Abs(far.value) \in 0..3
            /\ kqq % (4 * d * d) = 0 =>
                   /\ Abs(law_ret.value) = 4 * Abs(far.value)
                   /\ law_ret.value * d * d = kqq
                   /\ far.value * (2 * d) * (2 * d) = kqq

C18_Witness ==
    /\ Returned("coulomb_force_magnitude")
    /\ law_call.distance = 3
    /\ law_call.q1 = 1 /\ law_call.q2 = -2
    /\ law_ret = Ok(-800)
    /\ coulomb_force_magnitude(1, -2, 6) = Ok(-200)

\* stiffness*(target_pos - particle_pos) - damping*particle_vel
RawSpring(c) ==
    VSub(VScale(VSub(c.target_pos, c.particle_pos), c.config.stiffness),
         VScale(c.particle_vel, c.config.damping))

\* C9: with max_force >= 0 the magnitude of spring_force's result never
\* exceeds max_force; a raw force longer than max_force comes back with
\* magnitude exactly max_force in the direction of the raw force; the call
\* returns a value (no error).
C9_SpringClamp ==
    (Returned("spring_force") /\ law_call.config.max_force >= 0) =>
        LET f   == law_ret.value
            raw == RawSpring(law_call)
            m   == law_call.config.max_force
        IN  /\ ~law_ret.panic
            /\ Dot(f, f) <= m * m
            /\ Dot(raw, raw) > m * m =>
                   /\ Dot(f, f) = m * m
                   /\ Cross(f, raw) = VZero
                   /\ Dot(f, raw) >= 0
                   /\ m > 0 => Dot(f, raw) > 0

C9_Witness ==
    /\ Returned("spring_force")
    /\ law_call.config.max_force = 5
    /\ RawSpring(law_call) = <<6, 8, 0>>
    /\ law_ret.value = <<3, 4, 0>>

\* C10: a raw force of magnitude at most max_force is returned as it is:
\* stiffness*(target - pos) at zero velocity, -damping*vel at zero
\* stiffness, the zero vector at zero displacement and zero velocity.
C10_SpringPassThrough ==
    (/\ Returned("spring_force")
     /\ law_call.config.max_force >= 0
     /\ Dot(RawSpring(law_call), RawSpring(law_call))
            <= law_call.config.max_force * law_call.config.max_force) =>
        /\ law_ret.value = RawSpring(law_call)
        /\ law_call.particle_vel = VZero =>
               law_ret.value = VScale(VSub(law_call.target_pos, law_call.particle_pos),
                                      law_call.config.stiffness)
        /\ law_call.config.stiffness = 0 =>
               law_ret.value = VNeg(VScale(law_call.particle_vel, law_call.config.damping))
        /\ (law_call.particle_vel = VZero /\ law_call.target_pos = law_call.particle_pos) =>
               law_ret.value = VZero

C10_Witness ==
    /\ Returned("spring_force")
    /\ law_call.config = SpringConfig(1, 1, 5)
    /\ law_call.particle_vel = <<0, -4, 0>>
    /\ law_ret.value = <<3, 4, 0>>

\* Relaxed < Light < Medium < Heavy
Tension(state) ==
    CASE state = "Relaxed" -> 0
      [] state = "Light"   -> 1
      [] state = "Medium"  -> 2
      [] state = "Heavy"   -> 3

\* C19: with ratio = stretch * stiffness / max_force a number (max_force
\* not zero), from_stretch returns Relaxed exactly when ratio < 0.1, Light
\* exactly when 0.1 <= ratio < 0.4, Medium exactly when 0.4 <= ratio < 0.7
\* and Heavy exactly when ratio >= 0.7; with positive stiffness and
\* max_force no smaller stretch is classed as more tense.  The comparisons
\* are stated on 10 * stretch * stiffness against multiples of max_force.
C19_SpringStateThresholds ==
    (Returned("from_stretch") /\ law_call.config.max_force # 0) =>
        LET m   == law_call.config.max_force
            n   == 10 * law_call.stretch * law_call.config.stiffness * Sign(m)
            below(t) == n < t * Abs(m)
        IN  /\ ~law_ret.panic
            /\ law_ret.value \in {"Relaxed", "Light", "Medium", "Heavy"}
            /\ law_ret.value = "Relaxed" <=> below(1)
            /\ law_ret.value = "Light"   <=> ~below(1) /\ below(4)
            /\ law_ret.value = "Medium"  <=> ~below(4) /\ below(7)
            /\ law_ret.value = "Heavy"   <=> ~below(7)
            /\ (law_call.config.stiffness > 0 /\ m > 0) =>
                   \A shorter \in 0..law_call.stretch :
                       Tension(SpringState_from_stretch(shorter, law_call.config))
                           <= Tension(law_ret.value)

\* The ratio sits on the threshold 0.7.
C19_Witness ==
    /\ Returned("from_stretch")
    /\ law_call.stretch = 7
    /\ law_call.config.stiffness = 1
    /\ law_call.config.max_force = 10
    /\ law_ret = Ok("Heavy")

----------------------------------------------------------------------------
(* Properties of the integrator.                                           *)

\* C11: phase 1 of a Velocity-Verlet step moves the position to
\* x + v*dt + 0.5*(F/m)*dt^2, returns a_old = F/m and leaves velocity and
\* force alone; phase 2, run with a_old and the then-current force F', sets
\* the velocity to v + 0.5*(a_old + F'/m)*dt and leaves the position alone.
\* With zero force the particle moves by v*dt at unchanged velocity; with a
\* constant force from rest it reaches x = 0.5*a*dt^2 and v = a*dt.  The
\* equations are stated cleared of their divisions.
C11_VerletStepFormulas ==
    (law_call.fn = "verlet_step" /\ law_pc \in {"phase1", "returned"}) =>
        LET c == law_call
            p == law_ret.value.particle
            a_old == law_ret.value.accel
        IN  /\ VScale(a_old, c.mass) = c.force
            /\ VScale(VSub(VSub(p.position, c.position), VScale(c.velocity, c.dt)),
                      2 * c.mass)
                   = VScale(c.force, c.dt * c.dt)
            /\ c.force = VZero => p.position = VAdd(c.position, VScale(c.velocity, c.dt))
            /\ law_pc = "phase1" => p.velocity = c.velocity /\ p.force = c.force
            /\ law_pc = "returned" =>
                   /\ VScale(VSub(p.velocity, c.velocity), 2 * c.mass)
                          = VScale(VAdd(c.force, c.new_force), c.dt)
                   /\ (c.force = VZero /\ c.new_force = VZero) =>
                          p.velocity = c.velocity
                   /\ (c.position = VZero /\ c.velocity = VZero
                          /\ c.new_force = c.force) =>
                          /\ VScale(p.position, 2) = VScale(a_old, c.dt * c.dt)
                          /\ p.velocity = VScale(a_old, c.dt)

\* A proton with a velocity and a force that changes between the phases.
C11_Witness ==
    /\ law_pc = "returned"
    /\ law_call.fn = "verlet_step"
    /\ law_call.mass = PROTON_MASS
    /\ law_call.velocity = <<-2, 3, 1>>
    /\ law_call.force = <<8, 0, 0>>
    /\ law_call.new_force = <<-8, 16, 24>>
    /\ law_call.dt = 2
    /\ law_ret.value.particle.velocity = <<-2, 7, 7>>

=============================================================================
